---------------------------- MODULE Spec2Model ----------------------------
(***************************************************************************)
(* A model of the Slack question-answering bot (src/bot.py): the history   *)
(* cache and its refresh cycles, the similarity retriever                  *)
(* find_similar_qa_pairs, and the app_mention handler handle_mention.      *)
(*                                                                         *)
(* Texts and tokens are strings.  Tokenisation and mention stripping work  *)
(* on the characters of a text (CharsOf), one by one, as the regular       *)
(* expressions of the source do.                                           *)
(***************************************************************************)
EXTENDS Integers, Sequences, FiniteSets, TLC

(***************************************************************************)
(* Bounds of the model.                                                    *)
(***************************************************************************)
\* Scheduled (hourly) refresh cycles explored after the startup cycle.
MaxCycles == 1
\* Mentions delivered to the handler over a run.
MaxMentions == 2
\* Largest top_n and min_overlap explored for find_similar_qa_pairs.
MaxTopN == 3
MaxMinOverlap == 4
\* Pages the collaborator holds for one fetch_channel_history call.
MaxPages == 3

(***************************************************************************)
(* Program constants.                                                      *)
(***************************************************************************)
\* find_similar_qa_pairs(channel_id, question, top_n=3, min_overlap=3)
DefaultTopN == 3
DefaultMinOverlap == 3

None == "None"

(***************************************************************************)
(* Texts.                                                                  *)
(***************************************************************************)
TaxiStarterText   == "How do I expense a taxi?"
TaxiAnswerText    == "Use Navan, taxis need a receipt."
TaxiQuestionText  == "Can I expense a taxi receipt?"
PolicyStarterText == "Taxi receipt expense policy?"
LostStarterText   == "Lost my TAXI receipt - can I still expense it?"
LongQuestionText  == "Expense policy for a lost taxi receipt?"
ShortQuestionText == "hi taxi"
BotAnswerText     == "I am a bot."
LaterAnswerText   == "Correction: ask Finance."
MentionOnlyText   == " <@U1> "
MentionTaxiText   == "<@U1> Can I expense a taxi receipt?"
BotUserId         == "U1"

\* Topics of KNOWLEDGE_BASE with their contents: car_hire and taxis of the
\* finance domain, rail of the navan domain; and questions put to it.
CarHireTopic == "car_hire"
CarHireContent ==
    "Car hire is allowed for journeys over 100 miles and if more than one employee is travelling. Parking costs on business travel can be claimed."
TaxisTopic == "taxis"
TaxisContent ==
    "Always try to use public transport first. Taxi fares may only be claimed where no suitable public transport is available, when travelling in an unsafe area, when public transport is infrequent, or where there is a business cost saving. You'll need a receipt."
RailTopic == "rail"
RailContent ==
    "Always book standard class, as far ahead as possible for cheapest fares. You can claim the annual cost of a railcard if you regularly expense train travel (not commuting to your core office). OYSTER/Contactless: attach a breakdown of all journeys to your expense claim."
TravelQuestionText == "Is business travel claimed?"
AlwaysQuestionText == "Always travelling?"
FaresQuestionText == "fares"
AskQuestionText == "Who can I ask?"
TaxisQuestionText == "taxis"

\* The characters of each text of the model: TLC cannot index a string.
CharsOf ==
    ("How do I expense a taxi?" :>
       <<"H","o","w"," ","d","o"," ","I"," ","e","x","p","e","n","s","e",
         " ","a"," ","t","a","x","i","?">>)
 @@ ("Use Navan, taxis need a receipt." :>
       <<"U","s","e"," ","N","a","v","a","n",","," ","t","a","x","i","s",
         " ","n","e","e","d"," ","a"," ","r","e","c","e","i","p","t",".">>)
 @@ ("Can I expense a taxi receipt?" :>
       <<"C","a","n"," ","I"," ","e","x","p","e","n","s","e"," ","a"," ",
         "t","a","x","i"," ","r","e","c","e","i","p","t","?">>)
 @@ ("Taxi receipt expense policy?" :>
       <<"T","a","x","i"," ","r","e","c","e","i","p","t"," ","e","x","p",
         "e","n","s","e"," ","p","o","l","i","c","y","?">>)
 @@ ("Lost my TAXI receipt - can I still expense it?" :>
       <<"L","o","s","t"," ","m","y"," ","T","A","X","I"," ","r","e","c",
         "e","i","p","t"," ","-"," ","c","a","n"," ","I"," ","s","t","i",
         "l","l"," ","e","x","p","e","n","s","e"," ","i","t","?">>)
 @@ ("Expense policy for a lost taxi receipt?" :>
       <<"E","x","p","e","n","s","e"," ","p","o","l","i","c","y"," ","f",
         "o","r"," ","a"," ","l","o","s","t"," ","t","a","x","i"," ","r",
         "e","c","e","i","p","t","?">>)
 @@ ("hi taxi" :>
       <<"h","i"," ","t","a","x","i">>)
 @@ ("I am a bot." :>
       <<"I"," ","a","m"," ","a"," ","b","o","t",".">>)
 @@ ("Correction: ask Finance." :>
       <<"C","o","r","r","e","c","t","i","o","n",":"," ","a","s","k"," ",
         "F","i","n","a","n","c","e",".">>)
 @@ (" <@U1> " :>
       <<" ","<","@","U","1",">"," ">>)
 @@ ("<@U1> Can I expense a taxi receipt?" :>
       <<"<","@","U","1",">"," ","C","a","n"," ","I"," ","e","x","p","e",
         "n","s","e"," ","a"," ","t","a","x","i"," ","r","e","c","e","i",
         "p","t","?">>)
 @@ ("U1" :>
       <<"U","1">>)
 @@ (CarHireTopic :>
       <<"c","a","r","_","h","i","r","e">>)
 @@ (CarHireContent :>
       <<"C","a","r"," ","h","i","r","e"," ","i","s"," ","a","l","l","o",
         "w","e","d"," ","f","o","r"," ","j","o","u","r","n","e","y","s",
         " ","o","v","e","r"," ","1","0","0"," ","m","i","l","e","s"," ",
         "a","n","d"," ","i","f"," ","m","o","r","e"," ","t","h","a","n",
         " ","o","n","e"," ","e","m","p","l","o","y","e","e"," ","i","s",
         " ","t","r","a","v","e","l","l","i","n","g","."," ","P","a","r",
         "k","i","n","g"," ","c","o","s","t","s"," ","o","n"," ","b","u",
         "s","i","n","e","s","s"," ","t","r","a","v","e","l"," ","c","a",
         "n"," ","b","e"," ","c","l","a","i","m","e","d",".">>)
 @@ (TaxisTopic :>
       <<"t","a","x","i","s">>)
 @@ (TaxisContent :>
       <<"A","l","w","a","y","s"," ","t","r","y"," ","t","o"," ","u","s",
         "e"," ","p","u","b","l","i","c"," ","t","r","a","n","s","p","o",
         "r","t"," ","f","i","r","s","t","."," ","T","a","x","i"," ","f",
         "a","r","e","s"," ","m","a","y"," ","o","n","l","y"," ","b","e",
         " ","c","l","a","i","m","e","d"," ","w","h","e","r","e"," ","n",
         "o"," ","s","u","i","t","a","b","l","e"," ","p","u","b","l","i",
         "c"," ","t","r","a","n","s","p","o","r","t"," ","i","s"," ","a",
         "v","a","i","l","a","b","l","e",","," ","w","h","e","n"," ","t",
         "r","a","v","e","l","l","i","n","g"," ","i","n"," ","a","n"," ",
         "u","n","s","a","f","e"," ","a","r","e","a",","," ","w","h","e",
         "n"," ","p","u","b","l","i","c"," ","t","r","a","n","s","p","o",
         "r","t"," ","i","s"," ","i","n","f","r","e","q","u","e","n","t",
         ","," ","o","r"," ","w","h","e","r","e"," ","t","h","e","r","e",
         " ","i","s"," ","a"," ","b","u","s","i","n","e","s","s"," ","c",
         "o","s","t"," ","s","a","v","i","n","g","."," ","Y","o","u","'",
         "l","l"," ","n","e","e","d"," ","a"," ","r","e","c","e","i","p",
         "t",".">>)
 @@ (RailTopic :>
       <<"r","a","i","l">>)
 @@ (RailContent :>
       <<"A","l","w","a","y","s"," ","b","o","o","k"," ","s","t","a","n",
         "d","a","r","d"," ","c","l","a","s","s",","," ","a","s"," ","f",
         "a","r"," ","a","h","e","a","d"," ","a","s"," ","p","o","s","s",
         "i","b","l","e"," ","f","o","r"," ","c","h","e","a","p","e","s",
         "t"," ","f","a","r","e","s","."," ","Y","o","u"," ","c","a","n",
         " ","c","l","a","i","m"," ","t","h","e"," ","a","n","n","u","a",
         "l"," ","c","o","s","t"," ","o","f"," ","a"," ","r","a","i","l",
         "c","a","r","d"," ","i","f"," ","y","o","u"," ","r","e","g","u",
         "l","a","r","l","y"," ","e","x","p","e","n","s","e"," ","t","r",
         "a","i","n"," ","t","r","a","v","e","l"," ","(","n","o","t"," ",
         "c","o","m","m","u","t","i","n","g"," ","t","o"," ","y","o","u",
         "r"," ","c","o","r","e"," ","o","f","f","i","c","e",")","."," ",
         "O","Y","S","T","E","R","/","C","o","n","t","a","c","t","l","e",
         "s","s",":"," ","a","t","t","a","c","h"," ","a"," ","b","r","e",
         "a","k","d","o","w","n"," ","o","f"," ","a","l","l"," ","j","o",
         "u","r","n","e","y","s"," ","t","o"," ","y","o","u","r"," ","e",
         "x","p","e","n","s","e"," ","c","l","a","i","m",".">>)
 @@ (TravelQuestionText :>
       <<"I","s"," ","b","u","s","i","n","e","s","s"," ","t","r","a","v",
         "e","l"," ","c","l","a","i","m","e","d","?">>)
 @@ (AlwaysQuestionText :>
       <<"A","l","w","a","y","s"," ","t","r","a","v","e","l","l","i","n",
         "g","?">>)
 @@ (FaresQuestionText :>
       <<"f","a","r","e","s">>)
 @@ (AskQuestionText :>
       <<"W","h","o"," ","c","a","n"," ","I"," ","a","s","k","?">>)
 @@ (TaxisQuestionText :>
       <<"t","a","x","i","s">>)
 @@ ("" :> <<>>)

\* "".join(chars)
RECURSIVE Join(_)
Join(chars) == IF chars = <<>> THEN "" ELSE Head(chars) \o Join(Tail(chars))

UpperChars ==
    <<"A","B","C","D","E","F","G","H","I","J","K","L","M",
      "N","O","P","Q","R","S","T","U","V","W","X","Y","Z">>
LowerChars ==
    <<"a","b","c","d","e","f","g","h","i","j","k","l","m",
      "n","o","p","q","r","s","t","u","v","w","x","y","z">>
DigitChars == {"0","1","2","3","4","5","6","7","8","9"}
WhitespaceChars == {" ", "\t", "\n", "\r"}

\* str.lower() on one character
Lower(c) ==
    IF \E i \in 1..26 : UpperChars[i] = c
    THEN LowerChars[CHOOSE i \in 1..26 : UpperChars[i] = c]
    ELSE c

\* the character class [a-z0-9]
IsTokenChar(c) == c \in DigitChars \/ (\E i \in 1..26 : LowerChars[i] = c)

stopwords ==
    {"a", "an", "the", "is", "are", "was", "were", "be", "been", "being",
     "have", "has", "had", "do", "does", "did", "will", "would", "shall",
     "should", "may", "might", "must", "can", "could", "i", "me", "my",
     "we", "our", "you", "your", "he", "she", "it", "they", "them", "and",
     "or", "but", "in", "on", "at", "to", "for", "of", "with", "by",
     "from", "as", "into", "about", "that", "this", "what", "which", "who",
     "how", "when", "where", "why", "not", "no", "so", "if", "then"}
\* Whether the character at place k of text.lower() is in [a-z0-9].
IsTokenAt(text, k) == IsTokenChar(Lower(text[k]))

\* The first place from i on where a run of [a-z0-9] begins, or
\* Len(text) + 1 when there is none.
RunStart(text, i) ==
    CHOOSE s \in i..(Len(text) + 1) :
        /\ s = Len(text) + 1 \/ IsTokenAt(text, s)
        /\ \A k \in i..(s - 1) : ~IsTokenAt(text, k)

\* The last place of the run that begins at s: the match is greedy.
RunEnd(text, s) ==
    CHOOSE e \in s..Len(text) :
        /\ \A k \in s..e : IsTokenAt(text, k)
        /\ e = Len(text) \/ ~IsTokenAt(text, e + 1)

\* re.findall(r"[a-z0-9]+", text.lower()): the maximal runs of [a-z0-9],
\* scanned left to right from place i, a run at a step; acc is the runs
\* found so far.
RECURSIVE FindAllRuns(_, _, _)
FindAllRuns(text, i, acc) ==
    LET s == RunStart(text, i)
    IN  IF s > Len(text) THEN acc
        ELSE LET e == RunEnd(text, s)
                 run == Join([k \in 1..(e - s + 1) |->
                                 Lower(text[s + k - 1])])
             IN  FindAllRuns(text, e + 1, acc \cup {run})

\* A tokeniser that forgets to remove the stopwords.
TokeniseCharsKeepStopwords(chars) == FindAllRuns(chars, 1, {})

\* _tokenise, on the characters of a text
TokeniseChars(chars) == FindAllRuns(chars, 1, {}) \ stopwords

\* _tokenise(text), computed once for each text of the model
TokensOf == [text \in DOMAIN CharsOf |-> TokeniseChars(CharsOf[text])]

Tokenise(text) == TokensOf[text]

\* _similarity(text_a, text_b)
Similarity(text_a, text_b) ==
    Cardinality(Tokenise(text_a) \cap Tokenise(text_b))

\* Whether pat occurs in text at position i.
MatchesAt(text, i, pat) ==
    /\ i + Len(pat) - 1 <= Len(text)
    /\ \A k \in 1..Len(pat) : text[i + k - 1] = pat[k]

\* re.sub(pat, "", text) for a literal pattern: every non-overlapping
\* occurrence, found left to right, is removed in one pass.
RECURSIVE RemoveAll(_, _, _)
RemoveAll(text, i, pat) ==
    IF i > Len(text) THEN <<>>
    ELSE IF Len(pat) > 0 /\ MatchesAt(text, i, pat)
         THEN RemoveAll(text, i + Len(pat), pat)
         ELSE <<text[i]>> \o RemoveAll(text, i + 1, pat)

\* str.strip(): leading and trailing whitespace removed.
RECURSIVE StripLeft(_)
StripLeft(text) ==
    IF text # <<>> /\ Head(text) \in WhitespaceChars
    THEN StripLeft(Tail(text))
    ELSE text

RECURSIVE StripRight(_)
StripRight(text) ==
    IF text # <<>> /\ text[Len(text)] \in WhitespaceChars
    THEN StripRight(SubSeq(text, 1, Len(text) - 1))
    ELSE text

Strip(text) == StripRight(StripLeft(text))

\* _extract_question_text(text, bot_user_id)
ExtractQuestionText(text, bot_user_id) ==
    Join(Strip(RemoveAll(CharsOf[text], 1,
                         <<"<", "@">> \o CharsOf[bot_user_id] \o <<">">>)))

(***************************************************************************)
(* Messages, as the chat platform returns them.  bot_id and subtype are "" *)
(* when the key is missing; reply_count is 0 when missing.                 *)
(***************************************************************************)
Msg(ts, text, bot_id, subtype, reply_count) ==
    [ts |-> ts, text |-> text, bot_id |-> bot_id, subtype |-> subtype,
     reply_count |-> reply_count]

TaxiStarter   == Msg("1", TaxiStarterText, "", "", 1)
PolicyStarter == Msg("2", PolicyStarterText, "", "", 3)
LostStarter   == Msg("3", LostStarterText, "", "", 1)
NoThreadMsg   == Msg("4", LostStarterText, "", "", 0)
BotStarter    == Msg("5", PolicyStarterText, "B1", "", 1)
BotSubStarter == Msg("6", PolicyStarterText, "", "bot_message", 0)
FiveStarter   == Msg("7", LongQuestionText, "", "", 2)
ThreeStarter  == Msg("8", TaxiQuestionText, "", "", 1)

TaxiReply     == Msg("1.1", TaxiAnswerText, "", "", 0)
BotReply      == Msg("2.1", BotAnswerText, "B1", "", 0)
BotSubReply   == Msg("2.2", BotAnswerText, "", "bot_message", 0)
PolicyReply   == Msg("2.3", TaxiAnswerText, "", "", 0)
LaterReply    == Msg("2.4", LaterAnswerText, "", "", 0)
LostReply     == Msg("3.1", LaterAnswerText, "", "", 0)
FiveReply     == Msg("7.1", TaxiAnswerText, "", "", 0)
ThreeReply    == Msg("8.1", LaterAnswerText, "", "", 0)

\* What conversations_replies returns for a thread: the starting message
\* followed by its replies.
TaxiThread   == <<TaxiStarter, TaxiReply>>
PolicyThread == <<PolicyStarter, BotReply, BotSubReply, PolicyReply, LaterReply>>
BotOnlyThread == <<PolicyStarter, BotReply>>
LostThread   == <<LostStarter, LostReply>>
FiveThread   == <<FiveStarter, FiveReply, BotReply>>
ThreeThread  == <<ThreeStarter, ThreeReply>>

(***************************************************************************)
(* The chat-platform collaborator.  A call either raises or returns.       *)
(***************************************************************************)
\* One response of conversations_history: next_cursor is None when
\* response_metadata or next_cursor is missing.
Page(messages, next_cursor) ==
    [ok |-> TRUE, messages |-> messages, next_cursor |-> next_cursor]
PageError == [ok |-> FALSE, messages |-> <<>>, next_cursor |-> None]

\* One response of conversations_replies.
Replies(messages) == [ok |-> TRUE, messages |-> messages]
RepliesError == [ok |-> FALSE, messages |-> <<>>]

\* Python truthiness of a cursor: None and "" are falsy.
Truthy(cursor) == cursor # None /\ cursor # ""

\* A fetch that keeps the messages of the last page only.
ExtendMessagesReplaces(messages, resp) == resp.messages

\* line 210: messages.extend(resp["messages"])
ExtendMessages(messages, resp) == messages \o resp.messages

\* fetch_channel_history(channel_id): pages maps the cursor of a request
\* ("" for the first request, which passes none) to the collaborator's
\* response.  The loop ends at the first falsy next_cursor; a raising
\* request propagates and nothing is returned.
RECURSIVE FetchChannelHistoryFrom(_, _, _)
FetchChannelHistoryFrom(pages, cursor, messages) ==
    LET resp == pages[cursor]
    IN  IF ~resp.ok
        THEN [raised |-> TRUE, messages |-> <<>>]
        ELSE IF Truthy(resp.next_cursor)
             THEN FetchChannelHistoryFrom(pages, resp.next_cursor,
                                          ExtendMessages(messages, resp))
             ELSE [raised |-> FALSE,
                   messages |-> ExtendMessages(messages, resp)]

\* A fetch that returns the pages it got when a later request raises.
FetchChannelHistoryPartial(pages) ==
    LET res == FetchChannelHistoryFrom(pages, "", <<>>)
    IN  IF res.raised
        THEN [raised |-> FALSE,
              messages |-> IF pages[""].ok THEN pages[""].messages ELSE <<>>]
        ELSE res

FetchChannelHistory(pages) == FetchChannelHistoryFrom(pages, "", <<>>)

(***************************************************************************)
(* find_similar_qa_pairs: the loop over the history, the sort and the cut. *)
(***************************************************************************)
\* msg.get("bot_id") or msg.get("subtype") == "bot_message"
IsBotMessage(msg) == msg.bot_id # "" \/ msg.subtype = "bot_message"

\* A threshold that lets one token fewer through.
PassesThresholdOffByOne(score, min_overlap) == score >= min_overlap - 1

\* `if score < min_overlap: continue`
PassesThreshold(score, min_overlap) == ~(score < min_overlap)

\* A lookup that never finds the thread cached.
CachedRepliesNone(cached_threads, thread_ts) == <<>>

\* cached_threads.get(thread_ts): <<>> stands for None (key missing); the
\* `or` of line 271 treats None and the empty list alike.
CachedReplies(cached_threads, thread_ts) ==
    IF thread_ts \in DOMAIN cached_threads
    THEN cached_threads[thread_ts]
    ELSE <<>>

\* Replies kept without looking at who wrote them.
HumanRepliesUnfiltered(replies, msg) ==
    SelectSeq(replies, LAMBDA r : r.ts # msg.ts)

\* human_replies: not the starting message, not bot-authored
HumanReplies(replies, msg) ==
    SelectSeq(replies, LAMBDA r : /\ r.ts # msg.ts
                                  /\ r.bot_id = ""
                                  /\ r.subtype # "bot_message")

\* A candidate answered by the last human reply.
MakeCandidateLast(msg, human_replies, score) ==
    [question |-> msg.text,
     answer   |-> human_replies[Len(human_replies)].text,
     score    |-> score]

\* the dict appended to candidates
MakeCandidate(msg, human_replies, score) ==
    [question |-> msg.text,
     answer   |-> human_replies[1].text,
     score    |-> score]

\* The loop `for msg in history`.  live maps a thread_ts to what a live
\* conversations_replies call for it returns; acc carries the candidates
\* so far, the live fetches made, and whether a live fetch raised (which
\* ends the call).
RECURSIVE FindLoop(_, _, _, _, _, _, _)
FindLoop(history, i, cached_threads, live, question, min_overlap, acc) ==
    IF i > Len(history) \/ acc.raised THEN acc
    ELSE
      LET msg   == history[i]
          score == Similarity(question, msg.text)
          skip  == FindLoop(history, i + 1, cached_threads, live, question,
                            min_overlap, acc)
      IN
      IF IsBotMessage(msg) THEN skip
      ELSE IF msg.reply_count = 0 THEN skip
      ELSE IF ~PassesThreshold(score, min_overlap) THEN skip
      ELSE
        LET thread_ts == msg.ts
            cached    == CachedReplies(cached_threads, thread_ts)
            useLive   == cached = <<>>
            fetched   == IF useLive THEN Append(acc.fetched, thread_ts)
                         ELSE acc.fetched
        IN
        IF useLive /\ ~live[thread_ts].ok
        THEN [acc EXCEPT !.raised = TRUE, !.fetched = fetched]
        ELSE
          LET replies == IF useLive THEN live[thread_ts].messages ELSE cached
              human_replies == HumanReplies(replies, msg)
              acc2 == [acc EXCEPT
                         !.fetched = fetched,
                         !.candidates =
                            IF human_replies = <<>> THEN @
                            ELSE Append(@, MakeCandidate(msg, human_replies,
                                                         score))]
          IN  FindLoop(history, i + 1, cached_threads, live, question,
                       min_overlap, acc2)

\* Where c goes in a list already sorted by descending score: after every
\* element whose score is at least its own (the sort is stable).
RECURSIVE InsertByScore(_, _)
InsertByScore(sorted, c) ==
    IF sorted = <<>> THEN <<c>>
    ELSE IF Head(sorted).score >= c.score
         THEN <<Head(sorted)>> \o InsertByScore(Tail(sorted), c)
         ELSE <<c>> \o sorted

RECURSIVE SortFrom(_, _, _)
SortFrom(candidates, i, sorted) ==
    IF i > Len(candidates) THEN sorted
    ELSE SortFrom(candidates, i + 1, InsertByScore(sorted, candidates[i]))

\* A sort that leaves the candidates in history order.
SortCandidatesNot(candidates) == candidates

\* candidates.sort(key=lambda c: c["score"], reverse=True)
SortCandidates(candidates) == SortFrom(candidates, 1, <<>>)

\* candidates[:top_n], for top_n >= 0
TopN(candidates, top_n) ==
    SubSeq(candidates, 1, IF top_n < Len(candidates) THEN top_n
                          ELSE Len(candidates))

(***************************************************************************)
(* State.                                                                  *)
(***************************************************************************)
VARIABLES
    env,        \* the environment variables read at import (lines 41-52)
    cache,      \* _history_cache: channel id -> cache entry
    clock,      \* datetime.now(): the hours passed since the process began
    r,          \* the threads that run refresh_cache: main and scheduler
    cyc,        \* the refresh cycle now running or last run, for the record
    h,          \* the invocations of handle_mention
    mentions,   \* the number of app_mention events delivered so far
    kb,         \* KNOWLEDGE_BASE and a call of get_relevant_knowledge
    fh          \* a call of fetch_channel_history, request by request

vars == <<env, cache, clock, r, cyc, h, mentions, kb, fh>>

RefreshThreads == {"main", "sched"}
Handlers == {"h1"}

AllChannels == {"C_FIN", "C_NAV", "T_FIN", "T_NAV"}

(***************************************************************************)
(* Configuration.                                                          *)
(***************************************************************************)
LISTEN_FINANCE_CHANNEL_ID ==
    IF env.TEST_MODE THEN env.TEST_FINANCE_CHANNEL_ID
    ELSE env.ASK_FINANCE_CHANNEL_ID

LISTEN_NAVAN_CHANNEL_ID ==
    IF env.TEST_MODE THEN env.TEST_NAVAN_CHANNEL_ID
    ELSE env.ASK_NAVAN_CHANNEL_ID

\* A configuration whose history source is the listen channel itself.
ChannelConfigListenSource ==
    (LISTEN_NAVAN_CHANNEL_ID :>
        [type |-> "navan", history_source |-> LISTEN_NAVAN_CHANNEL_ID,
         system_prompt |-> "navan assistant"])
    @@
    (LISTEN_FINANCE_CHANNEL_ID :>
        [type |-> "finance", history_source |-> LISTEN_FINANCE_CHANNEL_ID,
         system_prompt |-> "finance assistant"])

\* CHANNEL_CONFIG: a dict literal, so of two equal keys the later (navan)
\* entry is the one kept.
CHANNEL_CONFIG ==
    (LISTEN_NAVAN_CHANNEL_ID :>
        [type |-> "navan", history_source |-> env.ASK_NAVAN_CHANNEL_ID,
         system_prompt |-> "navan assistant"])
    @@
    (LISTEN_FINANCE_CHANNEL_ID :>
        [type |-> "finance", history_source |-> env.ASK_FINANCE_CHANNEL_ID,
         system_prompt |-> "finance assistant"])

\* source_channels of refresh_cache: a set, so shared sources collapse
SourceChannels ==
    {CHANNEL_CONFIG[c].history_source : c \in DOMAIN CHANNEL_CONFIG}

(***************************************************************************)
(* What the collaborator may answer during a refresh or a retrieval.       *)
(***************************************************************************)
\* The histories the collaborator may serve, by the cursor of the request:
\* two pages; one page with no next_cursor at all; a failure on the first
\* page; a failure on the second.
HistoryTwoPages ==
    ("" :> Page(<<TaxiStarter, PolicyStarter>>, "c1"))
    @@ ("c1" :> Page(<<NoThreadMsg>>, ""))
HistoryOnePage ==
    ("" :> Page(<<BotSubStarter, LostStarter>>, None))
HistoryFailsFirst ==
    ("" :> PageError)
HistoryFailsSecond ==
    ("" :> Page(<<TaxiStarter>>, "c1")) @@ ("c1" :> PageError)

\* What conversations_history may serve for a channel at some moment.
HistoryWorlds(channel_id) ==
    IF channel_id = "C_FIN"
    THEN {HistoryTwoPages, HistoryFailsSecond}
    ELSE {HistoryOnePage, HistoryFailsFirst}

\* What conversations_replies may answer for a thread: it raises, or it
\* returns the thread; for thread "3" it may also return a response with
\* no messages, which line 226 turns into the empty list.
ThreadWorld(thread_ts) ==
    {RepliesError} \cup
    (CASE thread_ts = "1" -> {Replies(TaxiThread)}
       [] thread_ts = "2" -> {Replies(PolicyThread)}
       [] thread_ts = "3" -> {Replies(LostThread), Replies(<<>>)}
       [] thread_ts = "7" -> {Replies(FiveThread)}
       [] thread_ts = "8" -> {Replies(ThreeThread)}
       [] OTHER -> {Replies(BotOnlyThread)})

AllThreadOutcomes ==
    UNION {ThreadWorld(ts) : ts \in {"1", "2", "3", "5", "7", "8"}}

\* One outcome for each of the given threads.
ThreadOutcomes(tss) ==
    {f \in [tss -> AllThreadOutcomes] : \A ts \in tss : f[ts] \in ThreadWorld(ts)}

(***************************************************************************)
(* The history cache and its refresh.                                      *)
(***************************************************************************)
\* A thread whose fetch failed is stored as an empty list.
ThreadsAfterFetchStoresFailure(threads, thread_ts, outcome) ==
    (thread_ts :> outcome.messages) @@ threads

\* lines 118-124: threads[thread_ts] = fetch_thread_replies(...), the
\* assignment skipped when the fetch raises
ThreadsAfterFetch(threads, thread_ts, outcome) ==
    IF outcome.ok
    THEN (thread_ts :> outcome.messages) @@ threads
    ELSE threads

\* A refresh that fetches a thread for every message.
HasThreadAlways(msg) == TRUE

\* line 115: int(msg.get("reply_count", 0)) > 0
HasThread(msg) == msg.reply_count > 0

\* The thread_ts of the messages a refresh fetches threads for.
ThreadStarters(messages) ==
    {messages[i].ts : i \in {j \in 1..Len(messages) :
                                 HasThread(messages[j])}}

\* lines 114-125: the loop over the fetched messages
RECURSIVE RefreshThreadsLoop(_, _, _, _)
RefreshThreadsLoop(messages, i, outcomes, threads) ==
    IF i > Len(messages) THEN threads
    ELSE LET msg == messages[i]
         IN  IF HasThread(msg)
             THEN RefreshThreadsLoop(messages, i + 1, outcomes,
                      ThreadsAfterFetch(threads, msg.ts, outcomes[msg.ts]))
             ELSE RefreshThreadsLoop(messages, i + 1, outcomes, threads)

\* lines 131-135: the entry _refresh_single_channel returns
CacheEntry(messages, threads, now) ==
    [messages |-> messages, threads |-> threads, last_refreshed |-> now]

\* A failed refresh that drops the channel's entry.
CacheAfterFailureDrops(c, channel_id) ==
    [x \in DOMAIN c \ {channel_id} |-> c[x]]

\* lines 147-150: the except branch logs and leaves the cache alone
CacheAfterFailure(c, channel_id) == c

\* A loop that a failing channel ends.
TodoAfterFailureAborts(todo, channel_id) == {}

\* lines 144-150: the exception is caught inside the loop, which goes on
TodoAfterFailure(todo, channel_id) == todo \ {channel_id}

\* A store that makes the cache anew, with the one entry.
StoreEntryAlone(c, channel_id, entry) == (channel_id :> entry)

\* line 146: _history_cache[channel_id] = <the new entry>
StoreEntry(c, channel_id, entry) == (channel_id :> entry) @@ c

IdleRefresher(pc) ==
    [pc |-> pc, todo |-> {}, ch |-> None, messages |-> <<>>,
     threads |-> <<>>]

NoCycle ==
    [n |-> 0, running |-> FALSE, before |-> <<>>,
     attempts |-> [c \in AllChannels |-> 0],
     result |-> [c \in AllChannels |-> "none"],
     fetched |-> [c \in AllChannels |-> <<>>],
     replies |-> [c \in AllChannels |-> <<>>]]

\* A scheduler thread that runs the job before the main thread started it.
JobDueBeforeStart(pc) == pc \in {"off", "idle", "returned"}

\* lines 153-157 and 427: the scheduler thread, once started, runs the
\* hourly job when it is due; run_pending runs it in that one thread, so
\* the next run begins only after the last returned.
JobDue(pc) == pc \in {"idle", "returned"}

\* refresh_cache is entered, as cycle n at hour now: by the main thread at
\* startup (line 422), by the scheduler thread when the hourly job is due
\* (lines 153-157, 426).
RefreshEnter(t, n, now) ==
    /\ \/ t = "main" /\ r[t].pc = "init"
       \/ t = "sched" /\ JobDue(r[t].pc)
    /\ r' = [r EXCEPT ![t] = [IdleRefresher("loop") EXCEPT
                                 !.todo = SourceChannels]]
    /\ cyc' = [NoCycle EXCEPT !.n = n, !.running = TRUE, !.before = cache]
    /\ clock' = now
    /\ UNCHANGED <<fh, kb, env, cache, h, mentions>>

\* The cycles of a bounded run: the startup refresh and MaxCycles hourly
\* ones.
RefreshBegin(t) ==
    /\ cyc.n <= MaxCycles
    /\ RefreshEnter(t, cyc.n + 1, clock + 1)

\* The cycles of the whole process lifetime: the hourly job recurs without
\* end.  The cycle number stops counting after MaxCycles + 1 and the clock
\* is read modulo MaxCycles + 2 hours, so that two cycles in a row never
\* carry the same time.
RefreshRecur(t) ==
    RefreshEnter(t, IF cyc.n > MaxCycles THEN cyc.n ELSE cyc.n + 1,
                 (clock % (MaxCycles + 2)) + 1)

\* One iteration of the loop of refresh_cache up to the end of
\* fetch_channel_history: the history is fetched, or the fetch raises and
\* the except branch of refresh_cache ends the iteration.
RefreshChannel(t) ==
    /\ r[t].pc = "loop"
    /\ \E channel_id \in r[t].todo :
       \E pages \in HistoryWorlds(channel_id) :
         LET res == FetchChannelHistory(pages)
         IN  /\ cyc' = [cyc EXCEPT
                          !.attempts[channel_id] = @ + 1,
                          !.result[channel_id] =
                              IF res.raised THEN "failed" ELSE "fetching",
                          !.fetched[channel_id] = res.messages]
             /\ IF res.raised
                THEN /\ cache' = CacheAfterFailure(cache, channel_id)
                     /\ r' = [r EXCEPT ![t].todo =
                                  TodoAfterFailure(r[t].todo, channel_id)]
                ELSE /\ cache' = cache
                     /\ r' = [r EXCEPT ![t].pc = "threads",
                                       ![t].ch = channel_id,
                                       ![t].messages = res.messages,
                                       ![t].threads = <<>>]
    /\ UNCHANGED <<fh, kb, env, clock, h, mentions>>

\* The thread fetches of _refresh_single_channel, one per message with
\* replies, each of which may raise.
RefreshThreadsStep(t) ==
    /\ r[t].pc = "threads"
    /\ \E outcomes \in ThreadOutcomes(ThreadStarters(r[t].messages)) :
         r' = [r EXCEPT
                 ![t].pc = "store",
                 ![t].threads = RefreshThreadsLoop(r[t].messages, 1,
                                                   outcomes, <<>>)]
         /\ cyc' = [cyc EXCEPT !.replies[r[t].ch] = outcomes]
    /\ UNCHANGED <<fh, kb, env, cache, clock, h, mentions>>

\* _refresh_single_channel returns the new entry and refresh_cache stores
\* it under the channel id, in one assignment.
RefreshStore(t) ==
    /\ r[t].pc = "store"
    /\ cache' = StoreEntry(cache, r[t].ch,
                           CacheEntry(r[t].messages, r[t].threads, clock))
    /\ cyc' = [cyc EXCEPT !.result[r[t].ch] = "stored"]
    /\ r' = [r EXCEPT ![t] = [IdleRefresher("loop") EXCEPT
                                 !.todo = r[t].todo \ {r[t].ch}]]
    /\ UNCHANGED <<fh, kb, env, clock, h, mentions>>

\* A refresh_cache that lets the failure of a channel escape once the loop
\* is over: the thread that ran it dies with the exception.
PcAfterRefreshDies(results) ==
    IF \E c \in AllChannels : results[c] = "failed" THEN "dead"
    ELSE "returned"

\* lines 145-150: every exception of an iteration is caught inside the
\* loop, so refresh_cache returns to its caller whatever the iterations'
\* results were.
PcAfterRefresh(results) == "returned"

\* refresh_cache returns: every source channel has had its iteration.
RefreshEnd(t) ==
    /\ r[t].pc = "loop"
    /\ r[t].todo = {}
    /\ r' = [r EXCEPT ![t].pc = PcAfterRefresh(cyc.result)]
    /\ cyc' = [cyc EXCEPT !.running = FALSE, !.before = <<>>]
    /\ UNCHANGED <<fh, kb, env, cache, clock, h, mentions>>

\* lines 426-431: after the startup refresh the main thread schedules the
\* hourly job, starts the scheduler thread and starts the event handler.
MainServe ==
    /\ r["main"].pc = "returned"
    /\ r' = [r EXCEPT !["main"].pc = "serving", !["sched"].pc = "idle"]
    /\ UNCHANGED <<fh, kb, env, cache, clock, cyc, h, mentions>>

(***************************************************************************)
(* handle_mention.                                                         *)
(***************************************************************************)
NoQuestionText ==
    "It looks like you mentioned me but didn't ask a question. How can I help?"
ApologyText ==
    "Sorry, I ran into an issue trying to answer your question. Please try again or reach out to the team directly."

\* What claude.messages.create may return; it may also raise.
LLMReplies == {"Based on how we've handled similar questions: use Navan."}

\* The channels mentions come from: each is a listen channel in one mode
\* and not configured in the other.
MentionChannels == {"C_FIN", "T_NAV"}

\* The app_mention events delivered: thread_ts is None for a mention that
\* is not in a thread.
Events ==
    [channel : MentionChannels, text : {MentionOnlyText, MentionTaxiText},
     thread_ts : {None, "9.0"}, ts : {"10.0"}, user : {"U7"}]

NoEvent ==
    [channel |-> None, text |-> "", thread_ts |-> None, ts |-> None,
     user |-> None]

IdleHandler ==
    [pc |-> "idle", event |-> NoEvent, thread_ts |-> None,
     history_source |-> None, question |-> "",
     channel_id |-> None, top_n |-> 0, min_overlap |-> 0,
     cache_entry |-> <<>>, history |-> <<>>, cached_threads |-> <<>>,
     history_src |-> 0, threads_src |-> 0, cache_src |-> 0,
     pages |-> <<>>, live |-> <<>>, candidates |-> <<>>, similar_qa |-> <<>>, answer |-> "",
     log |-> <<>>, failure |-> "none", outcome |-> "none"]

\* line 366: event.get("thread_ts") or event.get("ts")
ThreadAnchor(event) ==
    IF Truthy(event.thread_ts) THEN event.thread_ts ELSE event.ts

\* build_prompt_messages(channel_id, question, similar_qa): the system
\* prompt of the listen channel, the knowledge domain (config["type"])
\* the context is drawn from, the similar Q&A and the question.
BuildPromptMessages(channel_id, question, similar_qa) ==
    [system |-> CHANNEL_CONFIG[channel_id].system_prompt,
     domain |-> CHANNEL_CONFIG[channel_id].type,
     similar_qa |-> similar_qa, question |-> question]

Say(text, thread_ts, ok) ==
    [op |-> "say", text |-> text, thread_ts |-> thread_ts, ok |-> ok]
Call(op) == [op |-> op]

\* A handler that answers in whatever channel it is mentioned.
IsConfiguredAlways(channel_id) == TRUE

\* line 369: channel_id in CHANNEL_CONFIG
IsConfigured(channel_id) == channel_id \in DOMAIN CHANNEL_CONFIG

\* A handler that takes events from the moment it is registered.
HandlerStartedAtImport(pc) == TRUE

\* lines 430-431: events are delivered once the main thread has reached
\* handler.start()
HandlerStarted(pc) == pc = "serving"

\* An app_mention event arrives (the handler runs only once the main
\* thread has reached handler.start()); lines 365-371.
Mention(id) ==
    /\ HandlerStarted(r["main"].pc)
    /\ h[id].pc \in {"idle", "done"}
    /\ mentions < MaxMentions
    /\ mentions' = mentions + 1
    /\ \E event \in Events :
         h' = [h EXCEPT ![id] =
                 IF ~IsConfigured(event.channel)
                 THEN [IdleHandler EXCEPT !.pc = "done", !.event = event,
                          !.thread_ts = ThreadAnchor(event),
                          !.outcome = "returned"]
                 ELSE IF event.channel \notin DOMAIN CHANNEL_CONFIG
                 THEN \* line 373 would raise KeyError
                      [IdleHandler EXCEPT !.pc = "done", !.event = event,
                          !.thread_ts = ThreadAnchor(event),
                          !.failure = "config", !.outcome = "raised"]
                 ELSE [IdleHandler EXCEPT !.pc = "auth", !.event = event,
                          !.thread_ts = ThreadAnchor(event),
                          !.history_source =
                              CHANNEL_CONFIG[event.channel].history_source,
                          !.outcome = "running"]]
    /\ UNCHANGED <<fh, kb, env, cache, clock, r, cyc>>

\* The empty-question test that never fires.
IsEmptyQuestionNever(question) == FALSE

\* line 379: `if not question`
IsEmptyQuestion(question) == question = ""

\* lines 376-377 and the test of line 379: the bot's identity is resolved
\* (auth_test may raise, outside the try) and the question extracted.
AuthTest(id) ==
    /\ h[id].pc = "auth"
    /\ \/ h' = [h EXCEPT ![id].pc = "done",
                         ![id].log = Append(@, Call("auth_test")),
                         ![id].failure = "auth_test",
                         ![id].outcome = "raised"]
       \/ LET question == ExtractQuestionText(h[id].event.text, BotUserId)
          IN  h' = [h EXCEPT
                      ![id].log = Append(@, Call("auth_test")),
                      ![id].question = question,
                      ![id].pc = IF IsEmptyQuestion(question)
                                 THEN "say_prompt" ELSE "find",
                      ![id].channel_id = h[id].history_source,
                      ![id].top_n = DefaultTopN,
                      ![id].min_overlap = DefaultMinOverlap]
    /\ UNCHANGED <<fh, kb, env, cache, clock, r, cyc, mentions>>

\* lines 379-384: the prompt for a question; say may raise.
SayPrompt(id) ==
    /\ h[id].pc = "say_prompt"
    /\ \E ok \in BOOLEAN :
         h' = [h EXCEPT
                 ![id].pc = "done",
                 ![id].log = Append(@, Say(NoQuestionText, h[id].thread_ts, ok)),
                 ![id].failure = IF ok THEN "none" ELSE "say",
                 ![id].outcome = IF ok THEN "returned" ELSE "raised"]
    /\ UNCHANGED <<fh, kb, env, cache, clock, r, cyc, mentions>>

\* A fallback that keeps the history it fetched as the channel's entry.
CacheAfterLiveFetchStores(c, channel_id, res, now) ==
    IF res.raised THEN c
    ELSE StoreEntry(c, channel_id, CacheEntry(res.messages, <<>>, now))

\* lines 248-253: the history fetched live on a cache miss is bound to a
\* local name, with an empty cached_threads, and the cache is not written
CacheAfterLiveFetch(c, channel_id, res, now) == c

\* lines 243-253 up to the history: the entry is looked up once; on a miss
\* the history is fetched live, which may raise.  pages records what
\* conversations_history answered to the live fetch.
FindLookup(id) ==
    /\ h[id].pc = "find"
    /\ LET channel_id == h[id].channel_id
           called == Append(h[id].log, Call("find_similar_qa_pairs"))
       IN
       IF channel_id \in DOMAIN cache
       THEN /\ h' = [h EXCEPT
                      ![id].pc = "find_threads",
                      ![id].log = called,
                      ![id].cache_entry = <<cache[channel_id]>>,
                      ![id].history = cache[channel_id].messages,
                      ![id].history_src = cache[channel_id].last_refreshed]
            /\ cache' = cache
       ELSE \E pages \in HistoryWorlds(channel_id) :
              LET res == FetchChannelHistory(pages)
              IN  /\ h' = [h EXCEPT
                            ![id].pc = IF res.raised THEN "except"
                                       ELSE "find_loop",
                            ![id].failure = IF res.raised THEN "history"
                                            ELSE "none",
                            ![id].log = Append(called,
                                               Call("conversations_history")),
                            ![id].pages = pages,
                            ![id].history = res.messages,
                            ![id].cached_threads = <<>>]
                  /\ cache' = CacheAfterLiveFetch(cache, channel_id, res,
                                                  clock)
    /\ UNCHANGED <<fh, kb, env, clock, r, cyc, mentions>>

\* The threads read from the cache a second time.
EntryForThreadsReread(hrec, c) == c[hrec.channel_id]

\* line 247: the threads come from the entry looked up at line 243
EntryForThreads(hrec, c) == hrec.cache_entry[1]

\* line 247: cached_threads = cache_entry["threads"].  history_src and
\* threads_src record the last_refreshed of the entries the two lists were
\* taken from, cache_src that of the entry the cache holds at this moment.
FindThreads(id) ==
    /\ h[id].pc = "find_threads"
    /\ LET entry == EntryForThreads(h[id], cache)
       IN  h' = [h EXCEPT ![id].pc = "find_loop",
                          ![id].cached_threads = entry.threads,
                          ![id].threads_src = entry.last_refreshed,
                          ![id].cache_src =
                              cache[h[id].channel_id].last_refreshed]
    /\ UNCHANGED <<fh, kb, env, cache, clock, r, cyc, mentions>>

\* The threads the loop fetches live, if no fetch raises before: those of
\* the eligible starting messages with no (or no non-empty) cached thread.
LiveThreads(hrec) ==
    {hrec.history[i].ts : i \in
        {j \in 1..Len(hrec.history) :
            /\ ~IsBotMessage(hrec.history[j])
            /\ hrec.history[j].reply_count # 0
            /\ PassesThreshold(Similarity(hrec.question,
                                          hrec.history[j].text),
                               hrec.min_overlap)
            /\ CachedReplies(hrec.cached_threads, hrec.history[j].ts) = <<>>}}

RECURSIVE LogFetches(_, _, _)
LogFetches(log, fetched, i) ==
    IF i > Len(fetched) THEN log
    ELSE LogFetches(Append(log, [op |-> "conversations_replies",
                                 ts |-> fetched[i]]), fetched, i + 1)

\* lines 255-290: the loop, the sort and the cut; a live thread fetch that
\* raises ends the call.  live records what conversations_replies answered
\* for the threads fetched live.
FindLoopStep(id) ==
    /\ h[id].pc = "find_loop"
    /\ \E live \in ThreadOutcomes(LiveThreads(h[id])) :
         LET res == FindLoop(h[id].history, 1, h[id].cached_threads, live,
                             h[id].question, h[id].min_overlap,
                             [raised |-> FALSE, candidates |-> <<>>,
                              fetched |-> <<>>])
         IN  h' = [h EXCEPT
                     ![id].log = LogFetches(@, res.fetched, 1),
                     ![id].pc = IF res.raised THEN "except" ELSE "ask",
                     ![id].failure = IF res.raised THEN "replies" ELSE "none",
                     ![id].live = [ts \in {res.fetched[k] :
                                              k \in 1..Len(res.fetched)}
                                     |-> live[ts]],
                     ![id].candidates = res.candidates,
                     ![id].similar_qa =
                         IF res.raised THEN <<>>
                         ELSE TopN(SortCandidates(res.candidates),
                                   h[id].top_n)]
    /\ UNCHANGED <<fh, kb, env, cache, clock, r, cyc, mentions>>

\* An LLM call that is made again when it raises.
CreateCallsRetry(prompt, raised) ==
    IF raised
    THEN <<[op |-> "messages.create", prompt |-> prompt],
           [op |-> "messages.create", prompt |-> prompt]>>
    ELSE <<[op |-> "messages.create", prompt |-> prompt]>>

\* lines 348-353: claude.messages.create is called once, with no try
\* around it, whether it returns or raises
CreateCalls(prompt, raised) ==
    <<[op |-> "messages.create", prompt |-> prompt]>>

\* lines 344-355 and 397: the prompt is composed and the LLM called once;
\* the call may raise.
AskClaude(id) ==
    /\ h[id].pc = "ask"
    /\ LET prompt == BuildPromptMessages(h[id].event.channel,
                                         h[id].question, h[id].similar_qa)
           composed == Append(h[id].log, Call("build_prompt_messages"))
       IN  \/ h' = [h EXCEPT ![id].pc = "except",
                             ![id].log = composed \o CreateCalls(prompt, TRUE),
                             ![id].failure = "llm"]
           \/ \E text \in LLMReplies :
                h' = [h EXCEPT ![id].pc = "say_answer",
                               ![id].log = composed
                                              \o CreateCalls(prompt, FALSE),
                               ![id].answer = text]
    /\ UNCHANGED <<fh, kb, env, cache, clock, r, cyc, mentions>>

\* A handler that apologises after every answer, delivered or not.
PcAfterAnswerExcept(ok) == "except"

\* lines 399-402: after say(text=answer) returns the try block is over
\* and the handler returns; when it raises, the except branch runs
PcAfterAnswer(ok) == IF ok THEN "done" ELSE "except"

\* line 399: the answer is delivered; say may raise, inside the try.
SayAnswer(id) ==
    /\ h[id].pc = "say_answer"
    /\ \E ok \in BOOLEAN :
         h' = [h EXCEPT
                 ![id].pc = PcAfterAnswer(ok),
                 ![id].log = Append(@, Say(h[id].answer, h[id].thread_ts, ok)),
                 ![id].failure = IF ok THEN "none" ELSE "say",
                 ![id].outcome = IF ok THEN "returned" ELSE "running"]
    /\ UNCHANGED <<fh, kb, env, cache, clock, r, cyc, mentions>>

\* An apology posted to the channel, outside any thread.
ApologyAnchorNone(hrec) == None

\* line 409: thread_ts=thread_ts
ApologyAnchor(hrec) == hrec.thread_ts

\* An apology that tells the user what went wrong.
ApologyWithDetail(failure) == failure

\* lines 404-408: the text of the apology is a literal; the exception
\* caught at line 402 is not bound to a name and goes to the log only
ApologyFor(failure) == ApologyText

\* lines 402-410: the except branch delivers the apology; this say may
\* raise too, and then handle_mention raises.
SayApology(id) ==
    /\ h[id].pc = "except"
    /\ \E ok \in BOOLEAN :
         h' = [h EXCEPT
                 ![id].pc = "done",
                 ![id].log = Append(@, Say(ApologyFor(h[id].failure),
                                           ApologyAnchor(h[id]), ok)),
                 ![id].outcome = IF ok THEN "returned" ELSE "raised"]
    /\ UNCHANGED <<fh, kb, env, cache, clock, r, cyc, mentions>>

(***************************************************************************)
(* The knowledge base and get_relevant_knowledge.                          *)
(***************************************************************************)
\* One topic of a domain of the knowledge base.
Topic(topic, content) == [topic |-> topic, content |-> content]

\* KNOWLEDGE_BASE: domain -> topics, a dict, so in insertion order.  Of
\* each domain the topics named above, in the order of the source.
KNOWLEDGE_BASE ==
    [finance |-> <<Topic(CarHireTopic, CarHireContent),
                   Topic(TaxisTopic, TaxisContent)>>,
     navan   |-> <<Topic(RailTopic, RailContent)>>]

\* A filter that keeps the topics that share nothing with the question.
KbIsMatchAlways(overlap) == TRUE

\* line 196: `if overlap > 0`
KbIsMatch(overlap) == overlap > 0

\* lines 194-195: the tokens of the topic's name and content together
KbOverlap(q_tokens, t) ==
    Cardinality(q_tokens \cap (Tokenise(t.topic) \cup Tokenise(t.content)))

\* lines 193-197: the loop over the topics of the domain
RECURSIVE KbMatches(_, _, _, _)
KbMatches(topics, i, q_tokens, matches) ==
    IF i > Len(topics) THEN matches
    ELSE LET overlap == KbOverlap(q_tokens, topics[i])
         IN  KbMatches(topics, i + 1, q_tokens,
                 IF KbIsMatch(overlap)
                 THEN Append(matches, [score |-> overlap,
                                       topic |-> topics[i].topic,
                                       content |-> topics[i].content])
                 ELSE matches)

\* line 200: matches.sort(key=lambda m: m[0], reverse=True)
KbSort(matches) == SortFrom(matches, 1, <<>>)

\* line 205: f"### {topic}\n{content}"
Section(m) == "### " \o m.topic \o "\n" \o m.content

\* line 206: "\n\n".join(sections)
RECURSIVE JoinSections(_)
JoinSections(sections) ==
    IF Len(sections) = 1 THEN sections[1]
    ELSE sections[1] \o "\n\n" \o JoinSections(Tail(sections))

\* get_relevant_knowledge(channel_type, question), reading base
GetRelevantKnowledge(base, channel_type, question) ==
    LET topics == IF channel_type \in DOMAIN base THEN base[channel_type]
                  ELSE <<>>
    IN  IF topics = <<>> THEN ""
        ELSE LET matches == KbSort(KbMatches(topics, 1, Tokenise(question),
                                             <<>>))
             IN  IF matches = <<>> THEN ""
                 ELSE JoinSections([k \in 1..Len(matches) |->
                                       Section(matches[k])])

NoKnowledgeCall ==
    [pc |-> "idle", base |-> KNOWLEDGE_BASE, given |-> KNOWLEDGE_BASE,
     channel_type |-> None, question |-> "", result |-> None]

\* get_relevant_knowledge runs to its return; it reads KNOWLEDGE_BASE and
\* assigns to locals only.
GetKnowledge ==
    /\ kb.pc = "called"
    /\ kb' = [kb EXCEPT !.pc = "returned",
                        !.result = GetRelevantKnowledge(kb.base,
                                       kb.channel_type, kb.question)]
    /\ UNCHANGED <<fh, env, cache, clock, r, cyc, h, mentions>>

(***************************************************************************)
(* fetch_channel_history, one request of its loop at a step.               *)
(***************************************************************************)
NoFetchCall ==
    [pc |-> "idle", pages |-> <<>>, cursor |-> None, messages |-> <<>>,
     requests |-> <<>>, returned |-> <<>>]

\* lines 199-214: one turn of `while True`.  The request passes the cursor
\* when it is truthy (the pages are keyed by "" for a request without
\* one); a request that raises ends the call with nothing returned; the
\* messages of the response are added and its next_cursor kept; the loop
\* breaks at a falsy cursor and line 216 returns the messages.
FetchRequest ==
    /\ fh.pc = "loop"
    /\ LET key  == IF Truthy(fh.cursor) THEN fh.cursor ELSE ""
           resp == fh.pages[key]
           messages == ExtendMessages(fh.messages, resp)
       IN  fh' = IF ~resp.ok
                 THEN [fh EXCEPT !.pc = "raised",
                                 !.requests = Append(@, key)]
                 ELSE [fh EXCEPT
                         !.requests = Append(@, key),
                         !.messages = messages,
                         !.cursor = resp.next_cursor,
                         !.pc = IF Truthy(resp.next_cursor) THEN "loop"
                                ELSE "returned",
                         !.returned = IF Truthy(resp.next_cursor) THEN <<>>
                                      ELSE <<messages>>]
    /\ UNCHANGED <<env, cache, clock, r, cyc, h, mentions, kb>>

(***************************************************************************)
(* The bot: startup, the refresh cycles and the handler.                   *)
(***************************************************************************)
Envs ==
    [TEST_MODE : BOOLEAN,
     ASK_FINANCE_CHANNEL_ID : {"C_FIN"},
     ASK_NAVAN_CHANNEL_ID : {"C_FIN", "C_NAV"},
     TEST_FINANCE_CHANNEL_ID : {"T_FIN"},
     TEST_NAVAN_CHANNEL_ID : {"T_NAV"}]

Init ==
    /\ env \in Envs
    /\ cache = <<>>
    /\ clock = 0
    /\ r = [t \in RefreshThreads |->
              IdleRefresher(IF t = "main" THEN "init" ELSE "off")]
    /\ cyc = NoCycle
    /\ h = [id \in Handlers |-> IdleHandler]
    /\ mentions = 0
    /\ kb = NoKnowledgeCall
    /\ fh = NoFetchCall

Next ==
    \/ \E t \in RefreshThreads :
         \/ RefreshBegin(t)
         \/ RefreshChannel(t)
         \/ RefreshThreadsStep(t)
         \/ RefreshStore(t)
         \/ RefreshEnd(t)
    \/ MainServe
    \/ \E id \in Handlers :
         \/ Mention(id)
         \/ AuthTest(id)
         \/ SayPrompt(id)
         \/ FindLookup(id)
         \/ FindThreads(id)
         \/ FindLoopStep(id)
         \/ AskClaude(id)
         \/ SayAnswer(id)
         \/ SayApology(id)

Spec == Init /\ [][Next]_vars

(***************************************************************************)
(* find_similar_qa_pairs on its own: one call, with the channel's cache    *)
(* entry (or none), the question, top_n and min_overlap drawn from bounded *)
(* sets, and no refresh running.                                           *)
(***************************************************************************)
\* Cache entries as a refresh leaves them: one thread; scores 2, 5 and 3
\* for the long question; ties, a bot starter, a thread of bot replies
\* only and a thread that was not cached; a tie in the other order with
\* a thread cached as the empty list.
FindEntries ==
    {CacheEntry(<<TaxiStarter>>, ("1" :> TaxiThread), 1),
     CacheEntry(<<TaxiStarter, FiveStarter, ThreeStarter>>,
                ("1" :> TaxiThread) @@ ("7" :> FiveThread)
                    @@ ("8" :> ThreeThread), 1),
     CacheEntry(<<PolicyStarter, BotStarter, LostStarter, NoThreadMsg,
                  TaxiStarter>>,
                ("2" :> PolicyThread) @@ ("3" :> LostThread)
                    @@ ("5" :> BotOnlyThread), 1),
     CacheEntry(<<LostStarter, PolicyStarter, ThreeStarter>>,
                ("3" :> LostThread) @@ ("2" :> <<>>)
                    @@ ("8" :> <<ThreeStarter, BotSubReply>>), 1)}

FindQuestions == {TaxiQuestionText, LongQuestionText, ShortQuestionText}

InitFind ==
    /\ env = [TEST_MODE |-> FALSE,
              ASK_FINANCE_CHANNEL_ID |-> "C_FIN",
              ASK_NAVAN_CHANNEL_ID |-> "C_NAV",
              TEST_FINANCE_CHANNEL_ID |-> "T_FIN",
              TEST_NAVAN_CHANNEL_ID |-> "T_NAV"]
    /\ cache \in {<<>>} \cup {("C_FIN" :> e) : e \in FindEntries}
    /\ clock = 1
    /\ r = [t \in RefreshThreads |->
              IdleRefresher(IF t = "main" THEN "serving" ELSE "idle")]
    /\ cyc = NoCycle
    /\ \E question \in FindQuestions, top_n \in 0..MaxTopN,
          min_overlap \in 1..MaxMinOverlap :
         h = [id \in Handlers |->
                [IdleHandler EXCEPT !.pc = "find",
                                    !.channel_id = "C_FIN",
                                    !.question = question,
                                    !.top_n = top_n,
                                    !.min_overlap = min_overlap]]
    /\ mentions = 0
    /\ kb = NoKnowledgeCall
    /\ fh = NoFetchCall

NextFind ==
    \E id \in Handlers :
       \/ FindLookup(id)
       \/ FindThreads(id)
       \/ FindLoopStep(id)

SpecFind == InitFind /\ [][NextFind]_vars

(***************************************************************************)
(* get_relevant_knowledge on its own: one call, with the knowledge base,   *)
(* the domain and the question drawn from bounded sets.                    *)
(***************************************************************************)
\* Knowledge bases: the topics of KNOWLEDGE_BASE above; the same with the
\* finance topics in the other order and an empty navan domain; one
\* domain of three topics.
KnowledgeBases ==
    {KNOWLEDGE_BASE,
     [finance |-> <<Topic(TaxisTopic, TaxisContent),
                    Topic(CarHireTopic, CarHireContent)>>,
      navan   |-> <<>>],
     [finance |-> <<Topic(RailTopic, RailContent),
                    Topic(CarHireTopic, CarHireContent),
                    Topic(TaxisTopic, TaxisContent)>>]}

KnowledgeDomains == {"finance", "navan", "hr"}

KnowledgeQuestions ==
    {TaxiQuestionText, TravelQuestionText, AlwaysQuestionText,
     FaresQuestionText, AskQuestionText, TaxisQuestionText,
     ShortQuestionText, ""}

InitKB ==
    /\ env = [TEST_MODE |-> FALSE,
              ASK_FINANCE_CHANNEL_ID |-> "C_FIN",
              ASK_NAVAN_CHANNEL_ID |-> "C_NAV",
              TEST_FINANCE_CHANNEL_ID |-> "T_FIN",
              TEST_NAVAN_CHANNEL_ID |-> "T_NAV"]
    /\ cache = <<>>
    /\ clock = 0
    /\ r = [t \in RefreshThreads |->
              IdleRefresher(IF t = "main" THEN "serving" ELSE "idle")]
    /\ cyc = NoCycle
    /\ h = [id \in Handlers |-> IdleHandler]
    /\ mentions = 0
    /\ \E base \in KnowledgeBases, channel_type \in KnowledgeDomains,
          question \in KnowledgeQuestions :
         kb = [pc |-> "called", base |-> base, given |-> base,
               channel_type |-> channel_type, question |-> question,
               result |-> None]
    /\ fh = NoFetchCall

NextKB == GetKnowledge

SpecKB == InitKB /\ [][NextKB]_vars

(***************************************************************************)
(* The refresh over the whole process lifetime: the startup refresh, then  *)
(* the scheduler thread, whose loop (lines 153-157) never ends and runs    *)
(* the hourly job each time it is due.  Every collaborator call returns or *)
(* raises, so a step that can be taken is taken: weak fairness of the      *)
(* whole.  The mention handlers write none of the variables a refresh      *)
(* reads and are left out.                                                 *)
(***************************************************************************)
NextLive ==
    \/ \E t \in RefreshThreads :
         \/ RefreshRecur(t)
         \/ RefreshChannel(t)
         \/ RefreshThreadsStep(t)
         \/ RefreshStore(t)
         \/ RefreshEnd(t)
    \/ MainServe

SpecLive == Init /\ [][NextLive]_vars /\ WF_vars(NextLive)

(***************************************************************************)
(* fetch_channel_history on its own: one call, against a collaborator that *)
(* holds MaxPages pages, one of which carries no next cursor, and that may *)
(* raise on one request.                                                   *)
(***************************************************************************)
\* The cursor that asks for page k; the first request passes none.
Cursors == <<"", "c1", "c2", "c3", "c4">>

PageMessages == {<<>>, <<TaxiStarter>>, <<PolicyStarter, NoThreadMsg>>}

\* Page stop and the last page carry no next cursor: an empty one or none
\* at all; request fail raises (0: none does).
FetchWorlds ==
    {[c \in {Cursors[k] : k \in 1..MaxPages} |->
        LET k == CHOOSE x \in 1..MaxPages : Cursors[x] = c
        IN  IF k = fail THEN PageError
            ELSE Page(ms[k], IF k = stop \/ k = MaxPages THEN end
                             ELSE Cursors[k + 1])] :
     ms \in [1..MaxPages -> PageMessages], end \in {"", None},
     stop \in 1..MaxPages, fail \in 0..MaxPages}

InitFetch ==
    /\ env = [TEST_MODE |-> FALSE,
              ASK_FINANCE_CHANNEL_ID |-> "C_FIN",
              ASK_NAVAN_CHANNEL_ID |-> "C_NAV",
              TEST_FINANCE_CHANNEL_ID |-> "T_FIN",
              TEST_NAVAN_CHANNEL_ID |-> "T_NAV"]
    /\ cache = <<>>
    /\ clock = 0
    /\ r = [t \in RefreshThreads |->
              IdleRefresher(IF t = "main" THEN "serving" ELSE "idle")]
    /\ cyc = NoCycle
    /\ h = [id \in Handlers |-> IdleHandler]
    /\ mentions = 0
    /\ kb = NoKnowledgeCall
    /\ \E pages \in FetchWorlds :
         fh = [NoFetchCall EXCEPT !.pc = "loop", !.pages = pages]

NextFetch == FetchRequest

SpecFetch == InitFetch /\ [][NextFetch]_vars

(***************************************************************************)
(* Properties.                                                             *)
(***************************************************************************)
SaysOf(log) == SelectSeq(log, LAMBDA e : e.op = "say")
OpsOf(log) == {log[i].op : i \in 1..Len(log)}
Finished(id) == h[id].pc = "done"

\* C1: the messages and the threads one find_similar_qa_pairs call uses
\* come from the same cache entry, whatever a refresh stores meanwhile:
\* once both are read they are the two fields of the entry looked up, and
\* carry the same last_refreshed.
C1_SameEntry ==
    \A id \in Handlers :
        (h[id].cache_entry # <<>> /\ h[id].pc # "find_threads") =>
            /\ h[id].history_src = h[id].threads_src
            /\ h[id].history = h[id].cache_entry[1].messages
            /\ h[id].cached_threads = h[id].cache_entry[1].threads
            /\ h[id].history_src = h[id].cache_entry[1].last_refreshed

\* A call that read its threads after a refresh had replaced the entry it
\* had looked up.
C1_Witness ==
    \E id \in Handlers :
        /\ h[id].cache_entry # <<>>
        /\ h[id].pc = "find_loop"
        /\ h[id].cache_src # h[id].history_src

\* C2: while a cycle runs, a channel whose history fetch raised in it has
\* exactly the entry it had when the cycle began, or none if it had none.
C2_FailedKeepsEntry ==
    \A c \in AllChannels :
        (cyc.running /\ cyc.result[c] = "failed") =>
            /\ (c \in DOMAIN cache) <=> (c \in DOMAIN cyc.before)
            /\ c \in DOMAIN cache => cache[c] = cyc.before[c]

\* A scheduled refresh of a channel failed, and a call then looked up the
\* entry of the startup refresh.
C2_Witness ==
    \E c \in AllChannels, id \in Handlers :
        /\ cyc.running /\ cyc.n = 2 /\ cyc.result[c] = "failed"
        /\ c \in DOMAIN cache
        /\ h[id].pc = "find_threads" /\ h[id].channel_id = c
        /\ h[id].cache_entry = <<cache[c]>>

\* C3: a refresh cycle attempts every history-source channel exactly once
\* and no other channel: never twice while it runs, once when it is over.
C3_OneAttemptEach ==
    /\ \A c \in AllChannels :
          cyc.attempts[c] <= (IF c \in SourceChannels THEN 1 ELSE 0)
    /\ (cyc.n > 0 /\ ~cyc.running) =>
          \A c \in SourceChannels : cyc.attempts[c] = 1

\* The refresh of one channel is under way after that of another failed
\* in the same cycle.
C3_Witness ==
    \E t \in RefreshThreads, c \in AllChannels :
        /\ r[t].pc = "threads" /\ r[t].ch # c
        /\ cyc.result[c] = "failed"

\* C4: an entry stored in the cycle holds all the messages fetched, a
\* thread for exactly the messages with replies whose thread fetch
\* returned, each with what that fetch returned, and no key for a thread
\* whose fetch raised.
C4_ThreadFailureSkipped ==
    \A c \in AllChannels :
        cyc.result[c] = "stored" =>
            /\ cache[c].messages = cyc.fetched[c]
            /\ DOMAIN cache[c].threads =
                  {ts \in ThreadStarters(cyc.fetched[c]) :
                      cyc.replies[c][ts].ok}
            /\ \A ts \in DOMAIN cache[c].threads :
                  cache[c].threads[ts] = cyc.replies[c][ts].messages

\* An entry stored after one thread fetch raised and another returned.
C4_Witness ==
    \E c \in AllChannels :
        /\ cyc.result[c] = "stored"
        /\ \E ts \in DOMAIN cyc.replies[c] : ~cyc.replies[c][ts].ok
        /\ \E ts \in DOMAIN cyc.replies[c] : cyc.replies[c][ts].ok
        /\ Len(cache[c].messages) = 3

RetrievalOrLLMFailed(id) ==
    Finished(id) /\ h[id].failure \in {"history", "replies", "llm"}

\* C5 as stated: after a failure of the retrieval or of the LLM call the
\* handler has sent the apology in the event's thread and returned
\* normally.
C5_ApologyAlwaysReturns ==
    \A id \in Handlers :
        RetrievalOrLLMFailed(id) =>
            /\ h[id].log[Len(h[id].log)].op = "say"
            /\ h[id].log[Len(h[id].log)].text = ApologyText
            /\ h[id].log[Len(h[id].log)].thread_ts = ThreadAnchor(h[id].event)
            /\ h[id].outcome = "returned"

\* C5 amended: after a failure of the retrieval or of the LLM call the
\* handler's only delivery, and its last call, is the apology anchored to
\* the event's thread; it returns normally exactly when that delivery
\* returns, and raises when the delivery raises; either way the next
\* mention is handled.
C5_ApologyAttempted ==
    \A id \in Handlers :
        RetrievalOrLLMFailed(id) =>
            LET says == SaysOf(h[id].log)
            IN  /\ Len(says) = 1
                /\ h[id].log[Len(h[id].log)] = says[1]
                /\ says[1].text = ApologyText
                /\ says[1].thread_ts = ThreadAnchor(h[id].event)
                /\ says[1].ok <=> h[id].outcome = "returned"
                /\ ~says[1].ok <=> h[id].outcome = "raised"
                /\ mentions < MaxMentions => ENABLED Mention(id)

\* A mention in a thread whose retrieval failed and whose apology was
\* delivered, with a second mention handled after a first.
C5_Witness ==
    \E id \in Handlers :
        /\ RetrievalOrLLMFailed(id)
        /\ h[id].failure = "replies"
        /\ h[id].event.thread_ts = "9.0"
        /\ h[id].outcome = "returned"
        /\ mentions = 2

\* C6: a mention from a channel that is no key of CHANNEL_CONFIG makes the
\* handler return at once: no say, no chat-platform call, no LLM call.
C6_UnconfiguredIgnored ==
    \A id \in Handlers :
        (h[id].pc # "idle" /\ h[id].event.channel \in AllChannels
            /\ h[id].event.channel \notin DOMAIN CHANNEL_CONFIG) =>
            /\ h[id].pc = "done"
            /\ h[id].log = <<>>
            /\ h[id].outcome = "returned"

\* A mention from the production channel while the bot is in test mode.
C6_Witness ==
    \E id \in Handlers :
        /\ Finished(id)
        /\ env.TEST_MODE
        /\ h[id].event.channel = env.ASK_FINANCE_CHANNEL_ID
        /\ h[id].log = <<>>

\* The event texts that hold nothing but the bot's mention and whitespace.
MentionOnlyTexts == {MentionOnlyText}

\* C7: for a mention in a configured channel whose text is only the
\* bot's mention and whitespace, the retriever, the composer and the LLM
\* are never called, and once the bot's identity is resolved the handler
\* delivers the "didn't ask a question" prompt in the event's thread, its
\* only delivery, and ends.
C7_EmptyQuestionPrompt ==
    \A id \in Handlers :
        (h[id].event.text \in MentionOnlyTexts
            /\ h[id].event.channel \in DOMAIN CHANNEL_CONFIG) =>
            /\ OpsOf(h[id].log) \subseteq {"auth_test", "say"}
            /\ h[id].pc \in {"auth", "say_prompt", "done"}
            /\ (Finished(id) /\ h[id].failure # "auth_test") =>
                  /\ Len(h[id].log) = 2
                  /\ h[id].log[2].op = "say"
                  /\ h[id].log[2].text = NoQuestionText
                  /\ h[id].log[2].thread_ts = ThreadAnchor(h[id].event)

\* The prompt delivered for a mention that is not in a thread.
C7_Witness ==
    \E id \in Handlers :
        /\ Finished(id)
        /\ h[id].event.text \in MentionOnlyTexts
        /\ h[id].event.thread_ts = None
        /\ Len(h[id].log) = 2
        /\ h[id].log[2] = Say(NoQuestionText, h[id].event.ts, TRUE)

\* The call of find_similar_qa_pairs has ended: it returned (the handler
\* goes on to ask_claude) or raised.
Returned(id) == h[id].pc = "ask"
Raised(id) == h[id].pc = "except"

\* The cached channel of the end-to-end example: one thread, the starter
\* "How do I expense a taxi?" and its only reply, asked "Can I expense a
\* taxi receipt?" with the default top_n.
TaxiExample(id) ==
    /\ cache = ("C_FIN" :> CacheEntry(<<TaxiStarter>>,
                                      ("1" :> <<TaxiStarter, TaxiReply>>), 1))
    /\ h[id].channel_id = "C_FIN"
    /\ h[id].question = TaxiQuestionText
    /\ h[id].top_n = DefaultTopN
    /\ (Returned(id) \/ Raised(id))

TaxiMatch(m) ==
    m.question = "How do I expense a taxi?"
        /\ m.answer = "Use Navan, taxis need a receipt."

\* C8 as stated: in the example, with the default min_overlap, the call
\* returns exactly one match, the taxi question with its answer.
C8_TaxiExampleOneMatch ==
    \A id \in Handlers :
        (TaxiExample(id) /\ h[id].min_overlap = DefaultMinOverlap) =>
            /\ Returned(id)
            /\ Len(h[id].similar_qa) = 1
            /\ TaxiMatch(h[id].similar_qa[1])

\* C8 amended: the two texts share two tokens, expense and taxi, so in the
\* example the call returns the empty list with the default min_overlap
\* of 3, and exactly one match, the taxi question with its answer and
\* score 2, with a min_overlap of 2.
C8_TaxiExampleTwoTokens ==
    \A id \in Handlers :
        TaxiExample(id) =>
            /\ Returned(id)
            /\ h[id].min_overlap = DefaultMinOverlap =>
                  h[id].similar_qa = <<>>
            /\ h[id].min_overlap = 2 =>
                  /\ Len(h[id].similar_qa) = 1
                  /\ TaxiMatch(h[id].similar_qa[1])
                  /\ h[id].similar_qa[1].score = 2

\* The example has run with the defaults and returned nothing.
C8_Witness ==
    \E id \in Handlers :
        /\ TaxiExample(id)
        /\ h[id].min_overlap = DefaultMinOverlap
        /\ h[id].similar_qa = <<>>
        /\ h[id].log = <<Call("find_similar_qa_pairs")>>

\* The tokens two texts share, counted on the sets of tokens.
Shared(text_a, text_b) ==
    Cardinality({t \in Tokenise(text_a) : t \in Tokenise(text_b)})

\* The human thread starters of the history a call went through.
Starters(id) ==
    {h[id].history[i] : i \in {j \in 1..Len(h[id].history) :
        /\ h[id].history[j].reply_count > 0
        /\ h[id].history[j].bot_id = ""
        /\ h[id].history[j].subtype # "bot_message"}}

\* C9: every match returned is a starting message that shares at least
\* min_overlap tokens with the question, with that number as its score;
\* a question of fewer than min_overlap tokens gets the empty list,
\* causes no thread fetch, and raises only if the live history fetch of a
\* cache miss does.
C9_Threshold ==
    \A id \in Handlers :
        /\ Returned(id) =>
              \A k \in 1..Len(h[id].similar_qa) :
                  /\ h[id].similar_qa[k].score >= h[id].min_overlap
                  /\ \E m \in Starters(id) :
                        /\ m.text = h[id].similar_qa[k].question
                        /\ Shared(h[id].question, m.text)
                               = h[id].similar_qa[k].score
        /\ Cardinality(Tokenise(h[id].question)) < h[id].min_overlap =>
              /\ Returned(id) => h[id].similar_qa = <<>>
              /\ Raised(id) => h[id].failure = "history"
              /\ "conversations_replies" \notin OpsOf(h[id].log)

\* A call that returned a starter sharing exactly min_overlap tokens and
\* left out one, with a human reply cached, sharing min_overlap - 1.
C9_Witness ==
    \E id \in Handlers :
        /\ Returned(id)
        /\ \E k \in 1..Len(h[id].similar_qa) :
              h[id].similar_qa[k].score = h[id].min_overlap
        /\ \E m \in Starters(id) :
              /\ Shared(h[id].question, m.text) = h[id].min_overlap - 1
              /\ m.ts \in DOMAIN h[id].cached_threads
              /\ HumanReplies(h[id].cached_threads[m.ts], m) # <<>>
              /\ \A k \in 1..Len(h[id].similar_qa) :
                    h[id].similar_qa[k].question # m.text

\* c comes before d in the order of the result: a higher score, or the
\* same score and an earlier place i < j among the candidates.
Before(c, i, d, j) ==
    c.score > d.score \/ (c.score = d.score /\ i < j)

\* C10: the list returned is the first top_n (all, if there are fewer) of
\* the candidates in descending order of score, candidates of equal score
\* in the order of their starting messages in the history; p gives the
\* place among the candidates of each match returned, q the place in the
\* history of each candidate.
C10_SortedAndCut ==
    \A id \in Handlers :
        Returned(id) =>
            LET c == h[id].candidates
                s == h[id].similar_qa
            IN  /\ Len(s) <= h[id].top_n
                /\ Len(s) = (IF h[id].top_n < Len(c) THEN h[id].top_n
                             ELSE Len(c))
                /\ \E p \in [1..Len(s) -> 1..Len(c)] :
                      /\ \A k \in 1..Len(s) : s[k] = c[p[k]]
                      /\ \A k, l \in 1..Len(s) :
                            k < l => Before(c[p[k]], p[k], c[p[l]], p[l])
                      /\ \A j \in 1..Len(c) :
                            (\A k \in 1..Len(s) : p[k] # j) =>
                                \A k \in 1..Len(s) :
                                    Before(c[p[k]], p[k], c[j], j)
                /\ \E q \in [1..Len(c) -> 1..Len(h[id].history)] :
                      /\ \A i, j \in 1..Len(c) : i < j => q[i] < q[j]
                      /\ \A i \in 1..Len(c) :
                            /\ h[id].history[q[i]].text = c[i].question
                            /\ h[id].history[q[i]] \in Starters(id)

\* Candidates scoring 2, 5 and 3 in history order, cut to the two best.
C10_Witness ==
    \E id \in Handlers :
        /\ Returned(id)
        /\ Len(h[id].candidates) = 3
        /\ h[id].candidates[1].score = 2
        /\ h[id].candidates[2].score = 5
        /\ h[id].candidates[3].score = 3
        /\ h[id].top_n = 2
        /\ Len(h[id].similar_qa) = 2
        /\ h[id].similar_qa[1].score = 5
        /\ h[id].similar_qa[2].score = 3

\* The replies a finished call used for the thread of starting message
\* msg: the cached list when there is a non-empty one, otherwise what the
\* live conversations_replies call answered.
UsedThread(id, msg) ==
    IF msg.ts \in DOMAIN h[id].cached_threads
           /\ h[id].cached_threads[msg.ts] # <<>>
    THEN h[id].cached_threads[msg.ts]
    ELSE h[id].live[msg.ts].messages

\* The places in a thread of the replies that are neither the starting
\* message nor bot-authored.
HumanPlaces(thread, msg) ==
    {j \in 1..Len(thread) :
        /\ thread[j].ts # msg.ts
        /\ thread[j].bot_id = ""
        /\ thread[j].subtype # "bot_message"}

\* The places in the history of the messages a finished call makes a
\* candidate of: human, with replies, sharing min_overlap tokens with the
\* question, and with a human reply in the thread used.
Answered(id) ==
    {i \in 1..Len(h[id].history) :
        LET msg == h[id].history[i]
        IN  /\ msg \in Starters(id)
            /\ Shared(h[id].question, msg.text) >= h[id].min_overlap
            /\ HumanPlaces(UsedThread(id, msg), msg) # {}}

\* C11: in a call that returned, the candidates are, one for one and in
\* history order, the starting messages that are human and have a human
\* reply other than themselves in their thread: the question of each is
\* the text of that message, its answer the text of such a reply; a bot
\* starter and a thread with no such reply give no candidate; and every
\* match returned is one of the candidates.
C11_HumanOnly ==
    \A id \in Handlers :
        Returned(id) =>
            LET c == h[id].candidates
            IN  /\ Len(c) = Cardinality(Answered(id))
                /\ \E q \in [1..Len(c) -> Answered(id)] :
                      /\ \A i, j \in 1..Len(c) : i < j => q[i] < q[j]
                      /\ \A i \in 1..Len(c) :
                            LET msg == h[id].history[q[i]]
                                thread == UsedThread(id, msg)
                            IN  /\ c[i].question = msg.text
                                /\ ~IsBotMessage(msg)
                                /\ \E j \in HumanPlaces(thread, msg) :
                                      c[i].answer = thread[j].text
                /\ \A k \in 1..Len(h[id].similar_qa) :
                      \E i \in 1..Len(c) : h[id].similar_qa[k] = c[i]

\* A call that returned a match answered by a human reply that comes
\* after bot replies in its thread, over a history with a human starter
\* whose thread holds only a bot reply besides the starter.
C11_Witness ==
    \E id \in Handlers :
        /\ Returned(id)
        /\ \E k \in 1..Len(h[id].similar_qa) :
              /\ h[id].similar_qa[k].question = PolicyStarter.text
              /\ h[id].similar_qa[k].answer = PolicyReply.text
        /\ \E i \in 1..Len(h[id].history) :
              LET msg == h[id].history[i]
              IN  /\ msg \in Starters(id)
                  /\ Shared(h[id].question, msg.text) >= h[id].min_overlap
                  /\ Len(UsedThread(id, msg)) = 2
                  /\ HumanPlaces(UsedThread(id, msg), msg) = {}

\* The least of a non-empty set of places.
First(places) == CHOOSE j \in places : \A k \in places : j <= k

\* C12: the answer of every candidate is the text of the first reply, in
\* thread order, that is neither the starting message nor bot-authored;
\* a later human reply is never the answer.
C12_FirstHumanReply ==
    \A id \in Handlers :
        Returned(id) =>
            \E q \in [1..Len(h[id].candidates) -> Answered(id)] :
                /\ \A i, j \in 1..Len(h[id].candidates) :
                      i < j => q[i] < q[j]
                /\ \A i \in 1..Len(h[id].candidates) :
                      LET msg == h[id].history[q[i]]
                          thread == UsedThread(id, msg)
                      IN  h[id].candidates[i].answer =
                              thread[First(HumanPlaces(thread, msg))].text

\* A candidate from a thread with two human replies of different texts,
\* the first of them behind two bot replies.
C12_Witness ==
    \E id \in Handlers :
        /\ Returned(id)
        /\ \E i \in 1..Len(h[id].candidates) :
              /\ h[id].candidates[i].question = PolicyStarter.text
              /\ h[id].candidates[i].answer = PolicyReply.text
        /\ \E i \in 1..Len(h[id].history) :
              /\ h[id].history[i] = PolicyStarter
              /\ UsedThread(id, PolicyStarter) = PolicyThread
        /\ PolicyReply.text # LaterReply.text

\* The call found no entry for its channel in the cache.
Missed(id) ==
    /\ h[id].cache_entry = <<>>
    /\ "find_similar_qa_pairs" \in OpsOf(h[id].log)

\* The thread_ts of the conversations_replies calls made, in order.
FetchedLive(id) ==
    LET calls == SelectSeq(h[id].log,
                           LAMBDA e : e.op = "conversations_replies")
    IN  [k \in 1..Len(calls) |-> calls[k].ts]

\* The thread_ts, in history order, of the messages that pass the bot,
\* reply_count and min_overlap tests.
Eligible(id) ==
    LET ms == SelectSeq(h[id].history,
                  LAMBDA m : /\ m \in Starters(id)
                             /\ Shared(h[id].question, m.text)
                                    >= h[id].min_overlap)
    IN  [k \in 1..Len(ms) |-> ms[k].ts]

\* C13: a call that finds no entry for its channel fetches the history
\* live and then the thread of every eligible message live, in history
\* order; when a request of the history fetch raises, or a thread fetch
\* raises, the call raises at that point and returns no list; when none
\* raises it returns; and it stores nothing in the cache.
C13_MissFetchesLive ==
    \A id \in Handlers :
        Missed(id) =>
            LET F == FetchedLive(id)
                E == Eligible(id)
            IN  /\ h[id].log[2] = Call("conversations_history")
                /\ cache = <<>>
                /\ (\E c \in DOMAIN h[id].pages : ~h[id].pages[c].ok) =>
                      /\ Raised(id)
                      /\ h[id].failure = "history"
                      /\ F = <<>>
                      /\ h[id].similar_qa = <<>>
                /\ (\A c \in DOMAIN h[id].pages : h[id].pages[c].ok) =>
                      /\ h[id].failure # "history"
                      /\ h[id].pc = "find_loop" => F = <<>>
                      /\ h[id].pc # "find_loop" =>
                            /\ Len(F) <= Len(E)
                            /\ \A k \in 1..Len(F) : F[k] = E[k]
                            /\ \A k \in 1..(Len(F) - 1) : h[id].live[F[k]].ok
                            /\ Raised(id) =>
                                  /\ h[id].failure = "replies"
                                  /\ F # <<>>
                                  /\ ~h[id].live[F[Len(F)]].ok
                                  /\ h[id].similar_qa = <<>>
                            /\ Returned(id) =>
                                  /\ Len(F) = Len(E)
                                  /\ \A k \in 1..Len(F) : h[id].live[F[k]].ok

\* A call on a channel with no entry that fetched two threads live, the
\* first of which returned and the second raised.
C13_Witness ==
    \E id \in Handlers :
        /\ Missed(id)
        /\ Raised(id)
        /\ Len(FetchedLive(id)) = 2
        /\ h[id].live[FetchedLive(id)[1]].ok
        /\ ~h[id].live[FetchedLive(id)[2]].ok

\* The first refresh cycle, that of startup, is over and has attempted
\* every history-source channel; a later cycle may be under way.
StartupRefreshDone ==
    /\ cyc.n >= 1
    /\ cyc.n = 1 =>
          /\ ~cyc.running
          /\ \A c \in SourceChannels : cyc.attempts[c] = 1
          /\ \A c \in SourceChannels : cyc.result[c] \in {"stored", "failed"}

\* C14: no mention is handled before the startup refresh has run to its
\* end: whenever an event has been delivered the main thread is past its
\* refresh_cache call, in which every history-source channel was
\* attempted, and the scheduled cycles begin only after that too.
C14_RefreshBeforeMentions ==
    /\ (mentions > 0 \/ \E id \in Handlers : h[id].pc # "idle") =>
          /\ r["main"].pc = "serving"
          /\ StartupRefreshDone
    /\ r["main"].pc \in {"returned", "serving"} => StartupRefreshDone
    /\ cyc.n >= 2 => r["main"].pc = "serving"

\* The first mention is being handled after a startup refresh in which a
\* channel failed, before any scheduled refresh.
C14_Witness ==
    \E id \in Handlers, c \in AllChannels :
        /\ mentions = 1
        /\ h[id].pc = "auth"
        /\ cyc.n = 1
        /\ cyc.result[c] = "failed"

\* The threads inside a refresh_cache call.
Refreshing == {t \in RefreshThreads : r[t].pc \in {"loop", "threads", "store"}}

\* C15: at most one refresh_cache call is in progress at any time, so at
\* most one refresh of a given channel: the startup refresh is over
\* before the scheduler thread exists, and the scheduled cycles run one
\* after the other in that thread.
C15_OneWriter ==
    /\ Cardinality(Refreshing) <= 1
    /\ cyc.running <=> Refreshing # {}
    /\ "main" \in Refreshing => r["sched"].pc = "off"
    /\ r["sched"].pc # "off" => r["main"].pc = "serving"
    /\ \A c \in AllChannels :
          Cardinality({t \in RefreshThreads :
                          r[t].pc \in {"threads", "store"} /\ r[t].ch = c}) <= 1

\* A scheduled refresh of a channel is about to store its entry while a
\* handler reads the entry of that channel.
C15_Witness ==
    \E id \in Handlers :
        /\ r["sched"].pc = "store"
        /\ r["main"].pc = "serving"
        /\ h[id].pc = "find_threads"
        /\ h[id].channel_id = r["sched"].ch

\* The production channels, whose history the bot reads in either mode.
ProductionChannels ==
    {env.ASK_FINANCE_CHANNEL_ID, env.ASK_NAVAN_CHANNEL_ID}

\* The production channel and the domain that belong to a listen channel.
ProductionOf(listen) ==
    IF listen = LISTEN_NAVAN_CHANNEL_ID
    THEN [channel |-> env.ASK_NAVAN_CHANNEL_ID, domain |-> "navan",
          system |-> "navan assistant"]
    ELSE [channel |-> env.ASK_FINANCE_CHANNEL_ID, domain |-> "finance",
          system |-> "finance assistant"]

\* C16: in either mode the channel id handle_mention passes to
\* find_similar_qa_pairs is the production channel of the listen channel
\* the mention came from, which in test mode is not the listen channel;
\* refresh_cache refreshes and stores under production channel ids only;
\* and the prompt takes its domain and system prompt from the listen
\* channel.
C16_ProductionHistory ==
    /\ DOMAIN cache \subseteq ProductionChannels
    /\ \A t \in RefreshThreads : r[t].todo \subseteq ProductionChannels
    /\ \A c \in AllChannels : cyc.attempts[c] > 0 => c \in ProductionChannels
    /\ \A id \in Handlers :
          "find_similar_qa_pairs" \in OpsOf(h[id].log) =>
              /\ h[id].channel_id = ProductionOf(h[id].event.channel).channel
              /\ env.TEST_MODE => h[id].channel_id # h[id].event.channel
              /\ \A k \in 1..Len(h[id].log) :
                    h[id].log[k].op = "messages.create" =>
                        /\ h[id].log[k].prompt.system =
                               ProductionOf(h[id].event.channel).system
                        /\ h[id].log[k].prompt.domain =
                               ProductionOf(h[id].event.channel).domain

\* In test mode a mention in the navan test channel was answered from the
\* cached history of the navan production channel, with the navan prompt.
C16_Witness ==
    \E id \in Handlers :
        /\ env.TEST_MODE
        /\ h[id].event.channel = "T_NAV"
        /\ h[id].channel_id = "C_NAV"
        /\ "C_NAV" \in DOMAIN cache
        /\ h[id].cache_entry = <<cache["C_NAV"]>>
        /\ \E k \in 1..Len(h[id].log) :
              /\ h[id].log[k].op = "messages.create"
              /\ h[id].log[k].prompt.domain = "navan"

\* The texts the LLM collaborator has returned to a handler so far.
LLMTexts(id) ==
    IF h[id].pc \in {"say_answer", "done", "except"} /\ h[id].answer # ""
    THEN {h[id].answer}
    ELSE {}

\* C17: every text a handler has passed to say is the text the LLM
\* returned to it, the fixed prompt for a question, or the fixed apology;
\* after any failure, of the history fetch, a thread fetch, the LLM call
\* or the delivery of the answer, the text of the apology is the same.
C17_UniformTexts ==
    \A id \in Handlers :
        LET says == SaysOf(h[id].log)
        IN  /\ \A k \in 1..Len(says) :
                  \/ says[k].text \in LLMTexts(id)
                  \/ says[k].text =
                       "It looks like you mentioned me but didn't ask a question. How can I help?"
                  \/ says[k].text =
                       "Sorry, I ran into an issue trying to answer your question. Please try again or reach out to the team directly."
            /\ (Finished(id) /\ h[id].failure
                                  \in {"history", "replies", "llm", "say"}
                   /\ h[id].question # "") =>
                  says[Len(says)].text =
                       "Sorry, I ran into an issue trying to answer your question. Please try again or reach out to the team directly."
            /\ h[id].answer # "" => h[id].answer \in LLMReplies

\* The delivery of the LLM's answer raised and the apology was delivered
\* after it.
C17_Witness ==
    \E id \in Handlers :
        /\ Finished(id)
        /\ h[id].failure = "say"
        /\ Len(SaysOf(h[id].log)) = 2
        /\ SaysOf(h[id].log)[1].text \in LLMReplies
        /\ SaysOf(h[id].log)[2].text = ApologyText
        /\ SaysOf(h[id].log)[2].ok

\* The calls of the LLM collaborator a handler has made.
LLMCalls(id) == SelectSeq(h[id].log, LAMBDA e : e.op = "messages.create")

\* C18: a handler calls the LLM at most once; when it has ended it has
\* called it exactly once if the channel is configured, the question is
\* not empty and the retrieval returned, and not at all otherwise; the
\* text of a call that returned is the text of the only answer delivery;
\* after a call that raised no answer is delivered, the call is not
\* repeated and the handler goes to its except branch.
C18_OneLLMCall ==
    \A id \in Handlers :
        LET n == Len(LLMCalls(id))
            says == SaysOf(h[id].log)
        IN  /\ n <= 1
            /\ n = 1 => /\ h[id].question # ""
                        /\ h[id].event.channel \in DOMAIN CHANNEL_CONFIG
                        /\ h[id].failure \notin {"history", "replies"}
                        /\ LLMCalls(id)[1].prompt.question = h[id].question
                        /\ LLMCalls(id)[1].prompt.similar_qa = h[id].similar_qa
            /\ Finished(id) =>
                  /\ n = 1 <=>
                        /\ h[id].event.channel \in DOMAIN CHANNEL_CONFIG
                        /\ h[id].question # ""
                        /\ h[id].failure \notin {"history", "replies"}
                  /\ (n = 1 /\ h[id].failure # "llm") =>
                        /\ h[id].answer \in LLMReplies
                        /\ says[1].text = h[id].answer
                        /\ \A k \in 2..Len(says) : says[k].text = ApologyText
                  /\ h[id].failure = "llm" =>
                        /\ n = 1
                        /\ h[id].answer = ""
                        /\ Len(says) = 1
                        /\ says[1].text = ApologyText

\* A handler has ended after its one LLM call raised.
C18_Witness ==
    \E id \in Handlers :
        /\ Finished(id)
        /\ h[id].failure = "llm"
        /\ Len(LLMCalls(id)) = 1
        /\ Len(h[id].similar_qa) = 1

\* C19: get_relevant_knowledge returns the sections of exactly the topics
\* of the domain whose name and content tokens share at least one token
\* with the question, the topic of greater overlap first and topics of
\* equal overlap in the order of the knowledge base; the empty string for
\* a domain that is unknown or empty and when no topic shares a token;
\* and the knowledge base is as it was given.
C19_RelevantKnowledge ==
    kb.pc = "returned" =>
        LET topics == IF kb.channel_type \in DOMAIN kb.given
                      THEN kb.given[kb.channel_type] ELSE <<>>
            q == Tokenise(kb.question)
            ov(i) == Cardinality({t \in q :
                         \/ t \in Tokenise(topics[i].topic)
                         \/ t \in Tokenise(topics[i].content)})
            M == {i \in 1..Len(topics) : ov(i) >= 1}
        IN  /\ kb.base = kb.given
            /\ M = {} => kb.result = ""
            /\ M # {} =>
                  \E p \in [1..Cardinality(M) -> M] :
                      /\ \A k, l \in 1..Cardinality(M) :
                            k < l => \/ ov(p[k]) > ov(p[l])
                                     \/ ov(p[k]) = ov(p[l]) /\ p[k] < p[l]
                      /\ kb.result =
                            JoinSections([k \in 1..Cardinality(M) |->
                                "### " \o topics[p[k]].topic \o "\n"
                                       \o topics[p[k]].content])

\* A call on a domain of three topics, rail, car_hire and taxis, with a
\* question that shares two tokens with the last and one with each of
\* the others: taxis comes first, then rail and car_hire as they stand.
C19_Witness ==
    /\ kb.pc = "returned"
    /\ kb.channel_type = "finance"
    /\ kb.question = AlwaysQuestionText
    /\ Len(kb.given.finance) = 3
    /\ kb.result = "### taxis\n" \o TaxisContent
                       \o "\n\n### rail\n" \o RailContent
                       \o "\n\n### car_hire\n" \o CarHireContent

\* C20: the refresh recurs for the whole process lifetime: cycles begin and
\* end again and again; a cycle in which a channel failed is followed by a
\* new cycle; and a channel whose history is fetched in a cycle gets the
\* entry of that cycle, its messages and its time, in place of whatever
\* entry it had.
C20_RefreshRecurs ==
    /\ []<>(cyc.running)
    /\ []<>(~cyc.running)
    /\ \A c \in AllChannels :
          (cyc.result[c] = "failed") ~>
              (cyc.running /\ cyc.result[c] = "none")
    /\ \A c \in AllChannels :
          (cyc.running /\ cyc.result[c] = "fetching") ~>
              /\ cyc.result[c] = "stored"
              /\ c \in DOMAIN cache
              /\ cache[c].messages = cyc.fetched[c]
              /\ cache[c].last_refreshed = clock

\* A third cycle stored the new entry of a channel, with other threads
\* than the entry it replaced, which was still that of the first cycle,
\* the second having failed on the channel; another channel failed in the
\* third.
C20_Witness ==
    \E c, d \in AllChannels :
        /\ cyc.running /\ cyc.n > MaxCycles
        /\ cyc.result[c] = "stored" /\ cyc.result[d] = "failed"
        /\ c \in DOMAIN cyc.before /\ c \in DOMAIN cache
        /\ cyc.before[c].last_refreshed + 1 < clock
        /\ cache[c].last_refreshed = clock
        /\ cache[c].threads # cyc.before[c].threads

\* C21: every key of the threads of a cache entry is the ts of a message
\* of that entry's messages whose reply_count was greater than 0: no thread
\* is stored for a message without replies, nor for a message that is not
\* in the entry.
C21_ThreadKeys ==
    \A c \in DOMAIN cache :
        \A ts \in DOMAIN cache[c].threads :
            \E i \in 1..Len(cache[c].messages) :
                /\ cache[c].messages[i].ts = ts
                /\ cache[c].messages[i].reply_count > 0

\* An entry that holds a thread, and a message without replies of which
\* it holds none.
C21_Witness ==
    \E c \in DOMAIN cache :
        /\ DOMAIN cache[c].threads # {}
        /\ \E i \in 1..Len(cache[c].messages) :
              /\ cache[c].messages[i].reply_count = 0
              /\ cache[c].messages[i].ts \notin DOMAIN cache[c].threads

\* The eligible threads with no cached replies to use: the key is missing
\* from the threads looked up, or the list cached under it is empty.
Uncached(id) ==
    SelectSeq(Eligible(id),
              LAMBDA ts : \/ ts \notin DOMAIN h[id].cached_threads
                          \/ h[id].cached_threads[ts] = <<>>)

\* The calls of the chat platform a call of find_similar_qa_pairs made.
PlatformCalls(id) ==
    SelectSeq(h[id].log,
              LAMBDA e : e.op \in {"conversations_history",
                                   "conversations_replies"})

\* C22 as stated: with a cache entry for the channel, no thread whose key
\* is present in the entry's threads is fetched live.
C22_PresentKeyNoLive ==
    \A id \in Handlers :
        h[id].cache_entry # <<>> =>
            \A k \in 1..Len(FetchedLive(id)) :
                FetchedLive(id)[k] \notin DOMAIN h[id].cached_threads

\* C22, amended: with a cache entry for the channel, the history is never
\* fetched live, and a thread is fetched live only for an eligible message
\* whose key is missing from the entry's threads or whose cached list is
\* empty; a call that returned fetched exactly those, in history order;
\* so with a non-empty list cached for every eligible message, the call
\* makes no chat-platform call.
C22_CachedThreadsUsed ==
    \A id \in Handlers :
        h[id].cache_entry # <<>> =>
            LET F == FetchedLive(id)
                U == Uncached(id)
            IN  /\ "conversations_history" \notin OpsOf(h[id].log)
                /\ Len(F) <= Len(U)
                /\ \A k \in 1..Len(F) : F[k] = U[k]
                /\ Returned(id) => F = U
                /\ (h[id].pc # "find_threads" /\ U = <<>>) =>
                      PlatformCalls(id) = <<>>

\* A call that returned after it used the cached replies of one eligible
\* thread and fetched live another, cached as the empty list.
C22_Witness ==
    \E id \in Handlers :
        /\ Returned(id)
        /\ h[id].cache_entry # <<>>
        /\ \E ts \in DOMAIN h[id].cached_threads :
              /\ h[id].cached_threads[ts] = <<>>
              /\ \E k \in 1..Len(FetchedLive(id)) : FetchedLive(id)[k] = ts
        /\ \E k \in 1..Len(Eligible(id)) :
              /\ Eligible(id)[k] \in DOMAIN h[id].cached_threads
              /\ h[id].cached_threads[Eligible(id)[k]] # <<>>
              /\ \A j \in 1..Len(FetchedLive(id)) :
                    FetchedLive(id)[j] # Eligible(id)[k]
        /\ h[id].candidates # <<>>

\* The messages of the pages the first n requests asked for, in order.
RECURSIVE Concatenated(_, _, _)
Concatenated(pages, requests, n) ==
    IF n = 0 THEN <<>>
    ELSE Concatenated(pages, requests, n - 1) \o pages[requests[n]].messages

\* C23: the first request of fetch_channel_history passes no cursor and
\* each later one the cursor the response before it carried; no request
\* follows a response with an empty or missing cursor, nor one that
\* raised; the call returns at the first such cursor, with the messages
\* of all the pages requested, concatenated in page order; and when a
\* request raises the call raises and returns no list.
C23_Pagination ==
    LET req == fh.requests
        n == Len(req)
        Falsy(c) == c \in {"", None}
    IN  /\ n >= 1 => req[1] = ""
        /\ \A k \in 2..n :
              /\ fh.pages[req[k - 1]].ok
              /\ ~Falsy(fh.pages[req[k - 1]].next_cursor)
              /\ req[k] = fh.pages[req[k - 1]].next_cursor
        /\ (fh.pc = "loop" /\ n >= 1) =>
              /\ fh.pages[req[n]].ok
              /\ ~Falsy(fh.pages[req[n]].next_cursor)
        /\ fh.pc = "loop" => fh.returned = <<>>
        /\ fh.pc = "returned" =>
              /\ n >= 1
              /\ fh.pages[req[n]].ok
              /\ Falsy(fh.pages[req[n]].next_cursor)
              /\ fh.returned = <<Concatenated(fh.pages, req, n)>>
              /\ FetchChannelHistory(fh.pages) =
                    [raised |-> FALSE, messages |-> fh.returned[1]]
        /\ fh.pc = "raised" =>
              /\ n >= 1
              /\ ~fh.pages[req[n]].ok
              /\ fh.returned = <<>>
              /\ FetchChannelHistory(fh.pages).raised

\* A call that returned the messages of two pages, the second of which
\* carried an empty cursor, while the collaborator held a third page with
\* messages.
C23_Witness ==
    /\ fh.pc = "returned"
    /\ fh.requests = <<"", "c1">>
    /\ fh.pages["c1"].next_cursor = ""
    /\ fh.pages["c2"].ok /\ fh.pages["c2"].messages # <<>>
    /\ fh.returned = <<<<PolicyStarter, NoThreadMsg, TaxiStarter>>>>

\* C24: no step removes a channel's entry from the cache; a step that
\* changes the entry of a channel is the store of a refresh cycle, and
\* puts a whole entry there: the messages that cycle fetched, its threads
\* and its time; and a call of find_similar_qa_pairs fetches the history
\* live only when the cache holds no entry for its channel at the lookup.
C24_EntriesStay ==
    [][/\ \A c \in DOMAIN cache :
             /\ c \in DOMAIN cache'
             /\ cache'[c] # cache[c] =>
                   /\ cyc'.result[c] = "stored"
                   /\ cache'[c] = [messages |-> cyc'.fetched[c],
                                   threads |-> cache'[c].threads,
                                   last_refreshed |-> clock']
                   /\ cache'[c].last_refreshed # cache[c].last_refreshed
       /\ \A id \in Handlers :
             ("conversations_history" \in
                  OpsOf(h'[id].log) \ OpsOf(h[id].log)) =>
                 h[id].channel_id \notin DOMAIN cache]_vars

\* A scheduled cycle put a new entry in the place of the one the startup
\* cycle had stored, and a call then looked that new entry up, with no
\* live fetch of the history.
C24_Witness ==
    \E id \in Handlers :
        LET c == h[id].channel_id
        IN  /\ c \in DOMAIN cyc.before /\ c \in DOMAIN cache
            /\ cyc.result[c] = "stored"
            /\ cache[c] # cyc.before[c]
            /\ h[id].pc = "find_threads"
            /\ h[id].cache_entry = <<cache[c]>>
            /\ "conversations_history" \notin OpsOf(h[id].log)

\* C25: no step of handle_mention or of find_similar_qa_pairs changes the
\* history cache, whether it reads the cache, fetches the history or a
\* thread live, calls the LLM or delivers a message: a step that changes
\* the cache is the store of a running refresh cycle and changes nothing
\* of any handler.
C25_HandlerLeavesCache ==
    [][/\ h' # h => cache' = cache
       /\ cache' # cache =>
             \E t \in RefreshThreads :
                 /\ r[t].pc = "store"
                 /\ cache' = StoreEntry(cache, r[t].ch, cache'[r[t].ch])]_vars

\* A call found no entry for its channel, fetched the history and a
\* thread live and returned, and the cache still holds no entry for the
\* channel.
C25_Witness ==
    \E id \in Handlers :
        /\ Missed(id)
        /\ Returned(id)
        /\ FetchedLive(id) # <<>>
        /\ h[id].candidates # <<>>
        /\ h[id].channel_id \notin DOMAIN cache

\* C26: for one mention, handle_mention calls say at most twice.  It has
\* called it no time when it is over for an unconfigured channel or
\* because auth_test raised, and at least once when it is over otherwise;
\* once, with the prompt for a question, on the empty-question path; never
\* again after a first say that returned; and a second time only after
\* the say of the answer raised, the second being the apology, which is
\* then always attempted.
C26_Deliveries ==
    \A id \in Handlers :
        LET S == SaysOf(h[id].log)
            resolved == /\ "auth_test" \in OpsOf(h[id].log)
                        /\ h[id].failure # "auth_test"
        IN  /\ Len(S) <= 2
            /\ (Finished(id) /\ ~resolved) => Len(S) = 0
            /\ (Finished(id) /\ resolved) => Len(S) >= 1
            /\ (Finished(id) /\ resolved /\ h[id].question = "") =>
                  /\ Len(S) = 1
                  /\ S[1].text = NoQuestionText
            /\ (Len(S) >= 1 /\ S[1].ok) =>
                  /\ Len(S) = 1
                  /\ Finished(id)
            /\ Len(S) = 2 =>
                  /\ ~S[1].ok
                  /\ S[1].text \in LLMReplies
                  /\ S[2].text = ApologyText
            /\ (Finished(id) /\ Len(S) >= 1 /\ ~S[1].ok
                    /\ S[1].text \in LLMReplies) => Len(S) = 2

\* A mention whose answer could not be delivered and whose apology was:
\* two attempts, the second after the first raised.
C26_Witness ==
    \E id \in Handlers :
        /\ Finished(id)
        /\ h[id].outcome = "returned"
        /\ Len(SaysOf(h[id].log)) = 2
        /\ ~SaysOf(h[id].log)[1].ok
        /\ SaysOf(h[id].log)[1].text = h[id].answer
        /\ SaysOf(h[id].log)[2].ok
        /\ SaysOf(h[id].log)[2].text = ApologyText

=============================================================================
